---- MODULE Spec2Model ----
(***************************************************************************)
(* A model of the crawler agents of packages/crawler:                      *)
(*   - PlaywrightBrowser, the driver adapter     (src/unnamed/part_000)    *)
(*   - createBrowser, the driver factory         (browser/index.ts)        *)
(*   - CrawlerAgent, the action agent            (src/unnamed/part_001)    *)
(*   - AIEnhancedAgent, the AI-enhanced agent    (agent/ai-enhanced.ts)    *)
(*                                                                         *)
(* Spec models one agent.  A public operation is one action: it runs the   *)
(* whole async method, from its call to the settling of its promise, with  *)
(* the faults of the engine and of the reasoning service chosen by \E.     *)
(* The caller then takes the outcome (Return) before it calls again.       *)
(*                                                                         *)
(* Every call an operation makes on the driver adapter or on the reasoning *)
(* service is appended to a call log; the outcome of the operation and     *)
(* its log are kept in `last` until the caller takes them.                 *)
(*                                                                         *)
(* Three further specifications look at what one action per call cannot    *)
(* show: ShotSpec, the screenshot files of two agents and the clock;       *)
(* AsyncSpec, calls made before an earlier call has returned, await by     *)
(* await; WaitSpec, the timer and the ready state of waitForNavigation.    *)
(* Three more look at one piece each: KeywordSpec, the keyword             *)
(* classification of locateElement; TreeSpec, the document tree of the     *)
(* page context; ClickSpec, clickAt of the driver adapter, await by await. *)
(***************************************************************************)
EXTENDS Integers, Sequences, FiniteSets, TLC

VARIABLES
    options,           \* the options of the agent: browser ("none" before construction),
                       \* whether a userAgent was given, useAutonomousPlanning
    isInitialized,     \* CrawlerAgent.isInitialized
    drvBrowser,        \* PlaywrightBrowser.browser: "unset", "open", "closed"
    drvPage,           \* PlaywrightBrowser.page:    "unset", "open", "closed", or
                       \* "stale": the open page of a session this.browser has left
    drvInits,          \* how often the adapter launched an engine: 0, 1, or 2 for more
    drvCloses,         \* how often the adapter's close was called: 0, 1, or 2 for more
    screenshotCounter, \* AIEnhancedAgent.screenshotCounter
    locateCap,         \* typeof midsceneCore.AiLocateElement === 'function'
    planCap,           \* typeof midsceneCore.plan === 'function'
    dom,               \* the document of the page, its elements in document order (in
                       \* TreeSpec with their depth in the tree)
    pc,                \* "idle": no call in flight; "returned": an outcome awaits the caller
    last,              \* the last public call: its operation, input, outcome and call log
    now,               \* Date.now(), in milliseconds since the model began
    written,           \* the files written to <outputDir>/screenshots, in order:
                       \* who wrote, and the name of the file
    peerCounter,       \* screenshotCounter of another agent with the same outputDir
    flight,            \* the calls made on the agent (in ClickSpec: on the adapter) whose
                       \* promises are observed step by step, in the order of their
                       \* invocation
    trace,             \* what these calls did on the driver adapter, in order: a driver
                       \* call started or ended, or the call returned to its caller
    readyState,        \* document.readyState of the page
    wait               \* a call of waitForNavigation observed step by step: the promise
                       \* in the page, its timer, and the outcome of the call

vars == <<options, isInitialized, drvBrowser, drvPage, drvInits, drvCloses,
          screenshotCounter,
          locateCap, planCap, dom, pc, last, now, written, peerCounter,
          flight, trace, readyState, wait>>

\* what the public operations of the agent leave alone
beside == <<now, written, peerCounter, flight, trace, readyState, wait>>

----------------------------------------------------------------------------
(* Bounds of the model *)

\* the longest plan handed to executePlan
MaxPlanLen == 2

\* the most screenshot files written, and the last millisecond of the clock
MaxShots == 3
MaxNow == 2

\* the most calls made on the agent while their promises are observed
MaxCalls == 2

\* the longest timeout handed to the constructor or to waitForNavigation, in ticks
MaxTimeout == 2

----------------------------------------------------------------------------
(* Strings.  A description is named by its text; Chars gives its characters,
   so that toLowerCase() and includes() are computed and not assumed. *)

Descriptions == {"search button", "Text Field", "home link", "missing", "News"}

Chars(d) ==
    CASE d = "search button" -> <<"s","e","a","r","c","h"," ","b","u","t","t","o","n">>
      [] d = "Text Field"    -> <<"T","e","x","t"," ","F","i","e","l","d">>
      [] d = "home link"     -> <<"h","o","m","e"," ","l","i","n","k">>
      [] d = "missing"       -> <<"m","i","s","s","i","n","g">>
      [] d = "News"          -> <<"N","e","w","s">>
      [] d = "button"        -> <<"b","u","t","t","o","n">>
      [] d = "input"         -> <<"i","n","p","u","t">>
      [] d = "text"          -> <<"t","e","x","t">>
      [] d = "field"         -> <<"f","i","e","l","d">>
      [] d = "link"          -> <<"l","i","n","k">>
      [] d = "Link Button"   -> <<"L","i","n","k"," ","B","u","t","t","o","n">>
      [] d = "BUTTON text"   -> <<"B","U","T","T","O","N"," ","t","e","x","t">>
      [] d = "link in field" -> <<"l","i","n","k"," ","i","n"," ","f","i","e","l","d">>
      [] d = "TEXT link"     -> <<"T","E","X","T"," ","l","i","n","k">>
      [] d = "Input"         -> <<"I","n","p","u","t">>
      [] d = "next LINK"     -> <<"n","e","x","t"," ","L","I","N","K">>

LowerChar(c) ==
    CASE c = "T" -> "t"
      [] c = "F" -> "f"
      [] c = "S" -> "s"
      [] c = "B" -> "b"
      [] c = "U" -> "u"
      [] c = "O" -> "o"
      [] c = "N" -> "n"
      [] c = "E" -> "e"
      [] c = "X" -> "x"
      [] c = "L" -> "l"
      [] c = "I" -> "i"
      [] c = "K" -> "k"
      [] OTHER   -> c

ToLowerCase(s) == [i \in 1..Len(s) |-> LowerChar(s[i])]

Includes(s, sub) ==
    \E i \in 1..(Len(s) - Len(sub) + 1) : SubSeq(s, i, i + Len(sub) - 1) = sub

----------------------------------------------------------------------------
(* Pages.  An element is [tag, id, cls, role, text, rect]; text is the
   textContent, rect the bounding client rect. *)

Rect(l, t, w, h) == [left |-> l, top |-> t, width |-> w, height |-> h]

El(tag, id, cls, text, rect) ==
    [tag |-> tag, id |-> id, cls |-> cls, role |-> "", text |-> text, rect |-> rect]

\* about:blank, the page of a fresh session
BlankPage == << El("body", "", "", "", Rect(0, 0, 1280, 0)) >>

\* one <input id="q"> and one <button>Search</button>
FixturePage ==
    << El("body",   "",  "", "Search", Rect(0, 0, 1280, 40)),
       El("input",  "q", "", "",       Rect(10, 10, 200, 20)),
       El("button", "",  "", "Search", Rect(220, 10, 80, 20)) >>

\* a heading, two paragraphs of content (the second one padded with blanks)
\* and a paragraph of white space only
ArticlePage ==
    << El("body", "", "",        "News one two", Rect(0, 0, 1280, 100)),
       El("h1",   "", "",        "News",         Rect(0, 0, 1280, 30)),
       El("p",    "", "content", "one",          Rect(0, 30, 1280, 30)),
       El("p",    "", "content", " two ",        Rect(0, 60, 1280, 30)),
       El("p",    "", "",        " ",            Rect(0, 90, 1280, 10)) >>

\* String.prototype.trim on the texts of the pages
Trim(t) ==
    CASE t = " two " -> "two"
      [] t = " "     -> ""
      [] OTHER       -> t

Urls == {"http://fixture/", "http://article/"}

PageAt(url) == IF url = "http://fixture/" THEN FixturePage ELSE ArticlePage

UrlOf(d) ==
    IF d = FixturePage THEN "http://fixture/"
    ELSE IF d = ArticlePage THEN "http://article/" ELSE "about:blank"

ButtonSelector == "button, [role=\"button\"], .btn, a.button"
InputSelector == "input, textarea"
LinkSelector == "a"
PlanSelector == "h1, h2, .content, article"

\* `*:contains("${description}")`
ContainsSelector(d) ==
    CASE d = "search button" -> "*:contains(\"search button\")"
      [] d = "Text Field"    -> "*:contains(\"Text Field\")"
      [] d = "home link"     -> "*:contains(\"home link\")"
      [] d = "missing"       -> "*:contains(\"missing\")"
      [] d = "News"          -> "*:contains(\"News\")"

\* :contains() is a jQuery extension and no CSS pseudo-class: querySelector and
\* querySelectorAll throw a SyntaxError on it
IsValidSelector(sel) == sel \notin {ContainsSelector(d) : d \in Descriptions}

Selectors == {"body", "h1", "#q", "#missing", ContainsSelector("News")}

\* element.matches(sel)
MatchesSelector(e, sel) ==
    CASE sel = ButtonSelector -> \/ e.tag = "button"
                                 \/ e.role = "button"
                                 \/ e.cls = "btn"
                                 \/ (e.tag = "a" /\ e.cls = "button")
      [] sel = InputSelector  -> e.tag \in {"input", "textarea"}
      [] sel = LinkSelector   -> e.tag = "a"
      [] sel = PlanSelector   -> e.tag \in {"h1", "h2", "article"} \/ e.cls = "content"
      [] sel = "#q"           -> e.id = "q"
      [] sel = "#missing"     -> e.id = "missing"
      [] OTHER                -> e.tag = sel

\* document.querySelectorAll(sel) for a valid selector, in document order
QuerySelectorAll(d, sel) == SelectSeq(d, LAMBDA e : MatchesSelector(e, sel))

----------------------------------------------------------------------------
(* Action Results (AgentActionResult) and outcomes of a call *)

NoData == [none |-> TRUE]

Ok == [success |-> TRUE, error |-> <<>>, hasData |-> FALSE, data |-> NoData]

OkWith(d) == [success |-> TRUE, error |-> <<>>, hasData |-> TRUE, data |-> d]

\* err is the message, as the sequence of its parts
Fail(err) == [success |-> FALSE, error |-> err, hasData |-> FALSE, data |-> NoData]

NotInitialized == Fail(<<"Browser not initialized">>)

\* the message of a fault of the engine or of the reasoning service
Cause == "fault"

\* the promise resolves with an Action Result
Resolved(res, calls) == [kind |-> "result", res |-> res, calls |-> calls]

\* the promise resolves with something else (a string, or nothing)
Value(v, calls) == [kind |-> "value", res |-> OkWith(v), calls |-> calls]

\* the promise rejects: the call throws to its caller
Thrown(msg, calls) == [kind |-> "throw", res |-> Fail(<<msg>>), calls |-> calls]

\* the next call, made with `log` already made, is the one that faults
Faults(log, F) == Len(log) + 1 = F

\* a call on this.page: fails when there is no live page, or by an engine fault
PageFails(log, F) == Faults(log, F) \/ drvPage \notin {"open", "stale"}

\* the corner of the box in the place of its center: the halving left out
CenterNotHalved(rect) == [x |-> rect.left + rect.width, y |-> rect.top + rect.height]

Center(rect) == [x |-> rect.left + rect.width \div 2, y |-> rect.top + rect.height \div 2]

----------------------------------------------------------------------------
(* The driver adapter: PlaywrightBrowser *)

\* the engine calls of PlaywrightBrowser.initialize, in order; a stage names the
\* one that faults, "ok" that none does
InitStages == {"ok", "launch", "newContext", "newPage"}

\* PlaywrightBrowser.initialize. this.browser is assigned as soon as the engine
\* is launched and this.page only by newPage; a session that this.browser
\* referred to and that was still open is left open, and this.page stays its
\* page until newPage.
PlaywrightInitialize(stage) ==
    LET launched == stage # "launch" IN
    [ ok      |-> stage = "ok",
      browser |-> IF launched THEN "open" ELSE drvBrowser,
      page    |-> IF stage = "ok" THEN "open"
                  ELSE IF launched /\ drvPage = "open" THEN "stale" ELSE drvPage,
      dom     |-> IF stage = "ok" THEN BlankPage ELSE dom ]

\* PlaywrightBrowser.close: closes this.browser if it is set; the page of that
\* session goes with it, and its document
PlaywrightClose(fault) ==
    IF drvBrowser = "unset"
    THEN [ok |-> TRUE, browser |-> drvBrowser, page |-> drvPage, dom |-> dom]
    ELSE IF fault
    THEN [ok |-> FALSE, browser |-> drvBrowser, page |-> drvPage, dom |-> dom]
    ELSE [ok |-> TRUE, browser |-> "closed",
          page |-> IF drvPage = "open" THEN "closed" ELSE drvPage,
          dom  |-> IF drvPage = "open" THEN BlankPage ELSE dom]

----------------------------------------------------------------------------
(* The driver factory and the construction of an agent *)

EngineNames == {"playwright", "puppeteer", "", "webkit"}

\* a factory that hands out the default engine for a name it does not know
createBrowserDefaulting(type) ==
    IF type \in {"playwright", "puppeteer"} THEN type ELSE "playwright"

\* createBrowser: "none" stands for the Error thrown on an unknown name
createBrowser(type) ==
    IF type \in {"playwright", "puppeteer"} THEN type ELSE "none"

\* CrawlerAgent.constructor: options.browser || 'playwright'
Constructor(type) == createBrowser(IF type = "" THEN "playwright" ELSE type)

----------------------------------------------------------------------------
(* CrawlerAgent: operations that change the state of the agent.  Each gives
   the outcome of the call and the state it leaves. *)

State ==
    [ isInitialized |-> isInitialized, drvBrowser |-> drvBrowser, drvPage |-> drvPage,
      drvInits |-> drvInits, drvCloses |-> drvCloses,
      screenshotCounter |-> screenshotCounter, dom |-> dom ]

\* a count of calls, kept up to "more than once"
Counted(n) == IF n < 2 THEN n + 1 ELSE n

\* CrawlerAgent.initialize
\* initialize setting isInitialized before the user agent override is made
CrawlerInitializeFlagFirst(stage, F) ==
    LET d    == PlaywrightInitialize(stage)
        st   == [State EXCEPT !.drvBrowser = d.browser, !.drvPage = d.page,
                              !.drvInits = IF stage = "launch" THEN drvInits
                                           ELSE Counted(drvInits),
                              !.dom = d.dom]
        log1 == <<"initialize">>
        log2 == <<"initialize", "evaluate">>
        failed == Fail(<<"Failed to initialize browser", Cause>>)
    IN  IF ~d.ok
        THEN [out |-> Resolved(failed, log1), st |-> st]
        ELSE IF options.userAgent
        THEN IF Faults(log1, F)
             THEN [out |-> Resolved(failed, log2),
                   st  |-> [st EXCEPT !.isInitialized = TRUE]]
             ELSE [out |-> Resolved(Ok, log2), st |-> [st EXCEPT !.isInitialized = TRUE]]
        ELSE [out |-> Resolved(Ok, log1), st |-> [st EXCEPT !.isInitialized = TRUE]]

CrawlerInitialize(stage, F) ==
    LET d    == PlaywrightInitialize(stage)
        st   == [State EXCEPT !.drvBrowser = d.browser, !.drvPage = d.page,
                              !.drvInits = IF stage = "launch" THEN drvInits
                                           ELSE Counted(drvInits),
                              !.dom = d.dom]
        log1 == <<"initialize">>
        log2 == <<"initialize", "evaluate">>
        failed == Fail(<<"Failed to initialize browser", Cause>>)
    IN  IF ~d.ok
        THEN [out |-> Resolved(failed, log1), st |-> st]
        ELSE IF options.userAgent
        THEN IF Faults(log1, F)
             THEN [out |-> Resolved(failed, log2), st |-> st]
             ELSE [out |-> Resolved(Ok, log2), st |-> [st EXCEPT !.isInitialized = TRUE]]
        ELSE [out |-> Resolved(Ok, log1), st |-> [st EXCEPT !.isInitialized = TRUE]]

\* CrawlerAgent.close
\* close without its isInitialized guard
CrawlerCloseUnguarded(F) ==
    LET d == PlaywrightClose(Faults(<<>>, F)) IN
    IF d.ok
    THEN [out |-> Value(NoData, <<"close">>),
          st  |-> [State EXCEPT !.drvBrowser = d.browser, !.drvPage = d.page,
                                !.drvCloses = Counted(drvCloses),
                                !.dom = d.dom, !.isInitialized = FALSE]]
    ELSE [out |-> Thrown(Cause, <<"close">>),
          st  |-> [State EXCEPT !.drvCloses = Counted(drvCloses)]]

\* close leaving isInitialized as it is
CrawlerCloseKeepsFlag(F) ==
    IF isInitialized
    THEN LET d == PlaywrightClose(Faults(<<>>, F)) IN
         IF d.ok
         THEN [out |-> Value(NoData, <<"close">>),
               st  |-> [State EXCEPT !.drvBrowser = d.browser, !.drvPage = d.page,
                                     !.drvCloses = Counted(drvCloses),
                                     !.dom = d.dom]]
         ELSE [out |-> Thrown(Cause, <<"close">>),
               st  |-> [State EXCEPT !.drvCloses = Counted(drvCloses)]]
    ELSE [out |-> Value(NoData, <<>>), st |-> State]

CrawlerClose(F) ==
    IF isInitialized
    THEN LET d == PlaywrightClose(Faults(<<>>, F)) IN
         IF d.ok
         THEN [out |-> Value(NoData, <<"close">>),
               st  |-> [State EXCEPT !.drvBrowser = d.browser, !.drvPage = d.page,
                                     !.drvCloses = Counted(drvCloses),
                                     !.dom = d.dom, !.isInitialized = FALSE]]
         ELSE [out |-> Thrown(Cause, <<"close">>),
               st  |-> [State EXCEPT !.drvCloses = Counted(drvCloses)]]
    ELSE [out |-> Value(NoData, <<>>), st |-> State]

\* CrawlerAgent.getCurrentUrl, continuing the call log `log`
getCurrentUrl(log, F) ==
    IF PageFails(log, F)
    THEN Thrown(Cause, Append(log, "evaluate"))
    ELSE Value(UrlOf(dom), Append(log, "evaluate"))

\* CrawlerAgent.getPageTitle
getPageTitle(log, F) ==
    IF PageFails(log, F)
    THEN Thrown(Cause, Append(log, "evaluate"))
    ELSE Value(dom[1].text, Append(log, "evaluate"))

\* CrawlerAgent.navigateTo: page.goto loads the page of the URL
\* navigateTo giving the agent up when goto faults
CrawlerNavigateToGivesUp(url, F) ==
    LET log1   == <<"goto">>
        loaded == [State EXCEPT !.dom = PageAt(url)]
        failed == Fail(<<"Failed to navigate to", url, Cause>>)
    IN  IF ~isInitialized
        THEN [out |-> Resolved(NotInitialized, <<>>), st |-> State]
        ELSE IF PageFails(<<>>, F)
        THEN [out |-> Resolved(failed, log1),
              st  |-> [State EXCEPT !.isInitialized = FALSE]]
        ELSE IF Faults(log1, F)
        THEN [out |-> Resolved(failed, Append(log1, "evaluate")), st |-> loaded]
        ELSE [out |-> Resolved(OkWith([url |-> url]), Append(log1, "evaluate")),
              st  |-> loaded]

CrawlerNavigateTo(url, F) ==
    LET log1   == <<"goto">>
        loaded == [State EXCEPT !.dom = PageAt(url)]
        failed == Fail(<<"Failed to navigate to", url, Cause>>)
    IN  IF ~isInitialized
        THEN [out |-> Resolved(NotInitialized, <<>>), st |-> State]
        ELSE IF PageFails(<<>>, F)
        THEN [out |-> Resolved(failed, log1), st |-> State]
        ELSE IF Faults(log1, F)
        THEN [out |-> Resolved(failed, Append(log1, "evaluate")), st |-> loaded]
        ELSE [out |-> Resolved(OkWith([url |-> url]), Append(log1, "evaluate")),
              st  |-> loaded]

----------------------------------------------------------------------------
(* CrawlerAgent: the actions that leave the state of the agent alone.  Each
   continues the call log `log` and gives the outcome of the call.  The
   document does not change while an operation runs. *)

\* page.evaluate of a script that queries `sel`: a selector that is no CSS
\* makes querySelector throw inside the page, and evaluate rejects
QueryFails(sel, log, F) == PageFails(log, F) \/ ~IsValidSelector(sel)

\* CrawlerAgent.clickElement
\* clickElement without its isInitialized guard
clickElementUnguarded(sel, log, F) ==
    LET log1   == Append(log, "evaluate")
        log2   == Append(log1, "evaluate")
        log3   == Append(log2, "clickAt")
        failed == Fail(<<"Failed to click element with selector", sel, Cause>>)
    IN  IF QueryFails(sel, log, F) THEN Resolved(failed, log1)
        ELSE IF QuerySelectorAll(dom, sel) = <<>>
        THEN Resolved(Fail(<<"Element with selector", sel, "not found">>), log1)
        ELSE IF PageFails(log1, F) THEN Resolved(failed, log2)
        ELSE IF PageFails(log2, F) THEN Resolved(failed, log3)
        ELSE Resolved(Ok, log3)

\* clickElement looking a second time for an element it did not find
clickElementRetrying(sel, log, F) ==
    LET log1   == Append(log, "evaluate")
        log2   == Append(log1, "evaluate")
        log3   == Append(log2, "clickAt")
        failed == Fail(<<"Failed to click element with selector", sel, Cause>>)
    IN  IF ~isInitialized THEN Resolved(NotInitialized, log)
        ELSE IF QueryFails(sel, log, F) THEN Resolved(failed, log1)
        ELSE IF QuerySelectorAll(dom, sel) = <<>>
        THEN Resolved(Fail(<<"Element with selector", sel, "not found">>), log2)
        ELSE IF PageFails(log1, F) THEN Resolved(failed, log2)
        ELSE IF PageFails(log2, F) THEN Resolved(failed, log3)
        ELSE Resolved(Ok, log3)

clickElement(sel, log, F) ==
    LET log1   == Append(log, "evaluate")
        log2   == Append(log1, "evaluate")
        log3   == Append(log2, "clickAt")
        failed == Fail(<<"Failed to click element with selector", sel, Cause>>)
    IN  IF ~isInitialized THEN Resolved(NotInitialized, log)
        ELSE IF QueryFails(sel, log, F) THEN Resolved(failed, log1)
        ELSE IF QuerySelectorAll(dom, sel) = <<>>
        THEN Resolved(Fail(<<"Element with selector", sel, "not found">>), log1)
        ELSE IF PageFails(log1, F) THEN Resolved(failed, log2)
        ELSE IF PageFails(log2, F) THEN Resolved(failed, log3)
        ELSE Resolved(Ok, log3)

\* CrawlerAgent.typeText; sel = "" stands for no selector
typeText(text, sel, log, F) ==
    LET log1   == IF sel # "" THEN Append(log, "evaluate") ELSE log
        log2   == Append(log1, "type")
        failed == Fail(<<"Failed to type text", Cause>>)
    IN  IF ~isInitialized THEN Resolved(NotInitialized, log)
        ELSE IF sel # "" /\ QueryFails(sel, log, F) THEN Resolved(failed, log1)
        ELSE IF sel # "" /\ QuerySelectorAll(dom, sel) = <<>>
        THEN Resolved(Fail(<<"Element with selector", sel, "not found">>), log1)
        ELSE IF PageFails(log1, F) THEN Resolved(failed, log2)
        ELSE Resolved(Ok, log2)

\* What a call of clickElement or typeText does in the page and on the mouse and
\* keyboard: the n-th call of the operation, `call` its name in the call log.
\* The scripts of clickElement query the selector and scroll the element into
\* view, then query it again and read its bounding box; the script of typeText
\* queries the selector and focuses the element.
Effect(op, sel, n, call) ==
    CASE op = "clickElement" /\ n = 1 ->
             IF QuerySelectorAll(dom, sel) = <<>> THEN <<"querySelector">>
             ELSE <<"querySelector", "scrollIntoView">>
      [] op = "clickElement" /\ n = 2 -> <<"querySelector", "getBoundingClientRect">>
      [] op = "typeText" /\ call = "evaluate" ->
             IF QuerySelectorAll(dom, sel) = <<>> THEN <<"querySelector">>
             ELSE <<"querySelector", "focus">>
      [] OTHER -> <<call>>

\* clickElement scrolling only after it has read the bounding box
PageEffectsScrollLast(op, sel, calls) ==
    IF op = "clickElement" /\ Len(calls) = 3
    THEN <<"querySelector", "querySelector", "getBoundingClientRect",
           "scrollIntoView", "clickAt">>
    ELSE calls

\* the effects of the calls of one operation, in order
PageEffects(op, sel, calls) ==
    LET e(n) == IF n <= Len(calls) THEN Effect(op, sel, n, calls[n]) ELSE <<>>
    IN  e(1) \o e(2) \o e(3)

\* the point clickElement hands to clickAt: rect.left + rect.width / 2,
\* rect.top + rect.height / 2 of the first match
ClickPosition(sel) == Center(QuerySelectorAll(dom, sel)[1].rect)

\* CrawlerAgent.pressKey
pressKey(key, log, F) ==
    IF ~isInitialized THEN Resolved(NotInitialized, log)
    ELSE IF PageFails(log, F)
    THEN Resolved(Fail(<<"Failed to press key", key, Cause>>), Append(log, "press"))
    ELSE Resolved(Ok, Append(log, "press"))

\* CrawlerAgent.scroll
\* scroll without its try/catch: the fault of the engine reaches the caller
scrollUncaught(direction, log, F) ==
    IF ~isInitialized THEN Resolved(NotInitialized, log)
    ELSE IF PageFails(log, F) THEN Thrown(Cause, Append(log, "scroll"))
    ELSE Resolved(Ok, Append(log, "scroll"))

scroll(direction, log, F) ==
    IF ~isInitialized THEN Resolved(NotInitialized, log)
    ELSE IF PageFails(log, F)
    THEN Resolved(Fail(<<"Failed to scroll", direction, Cause>>), Append(log, "scroll"))
    ELSE Resolved(Ok, Append(log, "scroll"))

\* elements.map(el => el.textContent?.trim()).filter(Boolean)
TrimmedTexts(els) ==
    LET texts == [i \in 1..Len(els) |-> Trim(els[i].text)]
    IN  SelectSeq(texts, LAMBDA t : t # "")

\* CrawlerAgent.extractText
extractText(sel, log, F) ==
    IF ~isInitialized THEN Resolved(NotInitialized, log)
    ELSE IF QueryFails(sel, log, F)
    THEN Resolved(Fail(<<"Failed to extract text from", sel, Cause>>),
                  Append(log, "evaluate"))
    ELSE Resolved(OkWith([texts |-> TrimmedTexts(QuerySelectorAll(dom, sel))]),
                  Append(log, "evaluate"))

\* the value extractData gives one key: null, a string, or a list of strings
NullValue == [kind |-> "null", text |-> "", texts |-> <<>>]

\* extractData that gives the first match alone wherever anything matches
ExtractValueFirstOnly(els) ==
    IF Len(els) = 0 THEN NullValue
    ELSE IF Trim(els[1].text) = "" THEN NullValue
    ELSE [kind |-> "string", text |-> Trim(els[1].text), texts |-> <<>>]

ExtractValue(els) ==
    IF Len(els) = 0 THEN NullValue
    ELSE IF Len(els) = 1
    THEN IF Trim(els[1].text) = "" THEN NullValue
         ELSE [kind |-> "string", text |-> Trim(els[1].text), texts |-> <<>>]
    ELSE [kind |-> "list", text |-> "", texts |-> TrimmedTexts(els)]

\* extractData that resolves every key by the selector of one and the same key
extractDataShared(extractionSpec, log, F) ==
    LET keys == DOMAIN extractionSpec
        one  == CHOOSE j \in keys : TRUE
    IN
    IF ~isInitialized THEN Resolved(NotInitialized, log)
    ELSE IF PageFails(log, F) \/ \E k \in keys : ~IsValidSelector(extractionSpec[k])
    THEN Resolved(Fail(<<"Failed to extract data", Cause>>), Append(log, "evaluate"))
    ELSE Resolved(OkWith([k \in keys |->
                            ExtractValue(QuerySelectorAll(dom, extractionSpec[one]))]),
                  Append(log, "evaluate"))

\* CrawlerAgent.extractData; extractionSpec is a function from keys to selectors
extractData(extractionSpec, log, F) ==
    LET keys == DOMAIN extractionSpec IN
    IF ~isInitialized THEN Resolved(NotInitialized, log)
    ELSE IF PageFails(log, F) \/ \E k \in keys : ~IsValidSelector(extractionSpec[k])
    THEN Resolved(Fail(<<"Failed to extract data", Cause>>), Append(log, "evaluate"))
    ELSE Resolved(OkWith([k \in keys |->
                            ExtractValue(QuerySelectorAll(dom, extractionSpec[k]))]),
                  Append(log, "evaluate"))

\* CrawlerAgent.takeScreenshot
\* takeScreenshot without its test of isInitialized
takeScreenshotUnguarded(log, F) ==
    IF PageFails(log, F)
    THEN Resolved(Fail(<<"Failed to take screenshot", Cause>>), Append(log, "screenshot"))
    ELSE Resolved(OkWith([screenshot |-> "jpeg"]), Append(log, "screenshot"))

takeScreenshot(log, F) ==
    IF ~isInitialized THEN Resolved(NotInitialized, log)
    ELSE IF PageFails(log, F)
    THEN Resolved(Fail(<<"Failed to take screenshot", Cause>>), Append(log, "screenshot"))
    ELSE Resolved(OkWith([screenshot |-> "jpeg"]), Append(log, "screenshot"))

\* CrawlerAgent.waitForNavigation: the promise in the page resolves (true at
\* readyState complete, false at the timeout), and the result is success
waitForNavigation(log, F) ==
    IF ~isInitialized THEN Resolved(NotInitialized, log)
    ELSE IF PageFails(log, F)
    THEN Resolved(Fail(<<"Failed to wait for navigation", Cause>>),
                  Append(log, "evaluate"))
    ELSE Resolved(Ok, Append(log, "evaluate"))

----------------------------------------------------------------------------
(* AIEnhancedAgent *)

\* AIEnhancedAgent.initialize
AIInitialize(stage, F) ==
    LET r == CrawlerInitialize(stage, F) IN
    IF ~r.out.res.success THEN r
    ELSE [out |-> Resolved(Ok, r.out.calls),
          st  |-> [r.st EXCEPT !.screenshotCounter = 0]]

\* the calls of getPageContext after the screenshot: getPageDimensions,
\* getPageTitle, getCurrentUrl and the evaluate that walks the document
ContextQueries == <<"getPageDimensions", "evaluate", "evaluate", "evaluate">>

\* getPageContext going on to the queries without a screenshot
getPageContextWithoutShot(log, F) ==
    LET shot == takeScreenshot(log, F) IN
    [ok |-> TRUE, calls |-> shot.calls \o ContextQueries, err |-> <<>>]

\* AIEnhancedAgent.getPageContext: ok with the context, or the Error thrown
getPageContext(log, F) ==
    LET shot == takeScreenshot(log, F)
        \* the first of the four queries that fails, 0 if none does
        k == IF F - Len(shot.calls) \in 1..Len(ContextQueries)
             THEN F - Len(shot.calls) ELSE 0
    IN  IF ~shot.res.success
        THEN [ok |-> FALSE, calls |-> shot.calls,
              err |-> <<"Failed to take screenshot">> \o shot.res.error]
        ELSE IF k > 0
        THEN [ok |-> FALSE, calls |-> shot.calls \o SubSeq(ContextQueries, 1, k),
              err |-> <<Cause>>]
        ELSE [ok |-> TRUE, calls |-> shot.calls \o ContextQueries, err |-> <<>>]

\* the classification with the test for a link made before the others
FallbackSelectorLinkFirst(description) ==
    LET lower == ToLowerCase(Chars(description)) IN
    IF Includes(lower, Chars("link")) THEN LinkSelector
    ELSE IF Includes(lower, Chars("button")) THEN ButtonSelector
    ELSE IF \/ Includes(lower, Chars("input"))
            \/ Includes(lower, Chars("text"))
            \/ Includes(lower, Chars("field")) THEN InputSelector
    ELSE ContainsSelector(description)

\* the selector the fallback of locateElement chooses for a description
FallbackSelector(description) ==
    LET lower == ToLowerCase(Chars(description)) IN
    IF Includes(lower, Chars("button")) THEN ButtonSelector
    ELSE IF \/ Includes(lower, Chars("input"))
            \/ Includes(lower, Chars("text"))
            \/ Includes(lower, Chars("field")) THEN InputSelector
    ELSE IF Includes(lower, Chars("link")) THEN LinkSelector
    ELSE ContainsSelector(description)

\* what midsceneCore.AiLocateElement answers: no element, an element without a
\* bounding box, or an element with its bounding box
LocateAnswers == {"none", "norect", "rect"}

NoPosition == [x |-> -1, y |-> -1]

\* the result of locateElement with a position computed whether or not a
\* bounding box was returned
LocatedAlwaysPosition(element, rect, hasPosition) ==
    OkWith([element |-> element, rect |-> rect, hasPosition |-> TRUE,
            position |-> Center(rect)])

Located(element, rect, hasPosition) ==
    OkWith([element |-> element, rect |-> rect, hasPosition |-> hasPosition,
            position |-> IF hasPosition THEN Center(rect) ELSE NoPosition])

\* locateResult.parseResult.elements when AiLocateElement matches: the element
\* it ranks first, then another
ServiceElements == <<dom[Len(dom)], dom[1]>>

\* AIEnhancedAgent.locateElement; `answer` is what AiLocateElement gives if asked
locateElement(description, log, F, answer) ==
    LET ctx      == getPageContext(log, F)
        failed   == Fail(<<"Failed to locate element", description>>
                         \o (IF ctx.ok THEN <<Cause>> ELSE ctx.err))
        notFound == Fail(<<"Could not find element:", description>>)
        logAi    == Append(ctx.calls, "AiLocateElement")
        logEval  == Append(ctx.calls, "evaluate")
        selector == FallbackSelector(description)
        elements == QuerySelectorAll(dom, selector)
    IN  IF ~ctx.ok THEN Resolved(failed, ctx.calls)
        ELSE IF locateCap
        THEN IF Faults(ctx.calls, F) THEN Resolved(failed, logAi)
             ELSE IF answer = "none" THEN Resolved(notFound, logAi)
             ELSE Resolved(Located(ServiceElements[1], ServiceElements[1].rect,
                                   answer = "rect"), logAi)
        ELSE IF QueryFails(selector, ctx.calls, F) THEN Resolved(failed, logEval)
             ELSE IF elements = <<>> THEN Resolved(notFound, logEval)
             ELSE Resolved(Located([elements[1] EXCEPT !.text = Trim(@)],
                                   elements[1].rect, TRUE), logEval)

\* AIEnhancedAgent.clickOnElement
\* clickOnElement handing back what it located along with the error of the click
clickOnElementWithData(description, log, F, answer) ==
    LET loc  == locateElement(description, log, F, answer)
        logC == Append(loc.calls, "clickAt")
    IN  IF ~loc.res.success THEN loc
        ELSE IF ~loc.res.data.hasPosition
        THEN Resolved(Fail(<<"Located element", description,
                             "but could not determine position for clicking">>),
                      loc.calls)
        ELSE IF PageFails(loc.calls, F)
        THEN Resolved([Fail(<<"Failed to click on element", description, Cause>>)
                          EXCEPT !.hasData = TRUE], logC)
        ELSE Resolved(OkWith([clicked |-> TRUE, element |-> loc.res.data.element]), logC)

\* clickOnElement clicking whatever position the location carries
clickOnElementBlind(description, log, F, answer) ==
    LET loc  == locateElement(description, log, F, answer)
        logC == Append(loc.calls, "clickAt")
    IN  IF ~loc.res.success THEN loc
        ELSE IF PageFails(loc.calls, F)
        THEN Resolved(Fail(<<"Failed to click on element", description, Cause>>), logC)
        ELSE Resolved(OkWith([clicked |-> TRUE, element |-> loc.res.data.element]), logC)

clickOnElement(description, log, F, answer) ==
    LET loc  == locateElement(description, log, F, answer)
        logC == Append(loc.calls, "clickAt")
    IN  IF ~loc.res.success THEN loc
        ELSE IF ~loc.res.data.hasPosition
        THEN Resolved(Fail(<<"Located element", description,
                             "but could not determine position for clicking">>),
                      loc.calls)
        ELSE IF PageFails(loc.calls, F)
        THEN Resolved(Fail(<<"Failed to click on element", description, Cause>>), logC)
        ELSE Resolved(OkWith([clicked |-> TRUE, element |-> loc.res.data.element]), logC)

\* AIEnhancedAgent.inputTextIntoElement
\* the position inputTextIntoElement hands to clickAt: the one of the location
InputPosition(loc) == loc.res.data.position

\* inputTextIntoElement typing although clickAt threw
inputTextIntoElementTypesAnyway(description, text, log, F, answer) ==
    LET loc    == locateElement(description, log, F, answer)
        logC   == Append(loc.calls, "clickAt")
        logT   == Append(logC, "type")
        failed == Fail(<<"Failed to input text into element", description, Cause>>)
    IN  IF ~loc.res.success THEN loc
        ELSE IF ~loc.res.data.hasPosition
        THEN Resolved(Fail(<<"Located element", description,
                             "but could not determine position for clicking">>),
                      loc.calls)
        ELSE IF PageFails(loc.calls, F) THEN Resolved(failed, logT)
        ELSE IF PageFails(logC, F) THEN Resolved(failed, logT)
        ELSE Resolved(OkWith([inputted |-> TRUE, text |-> text,
                              element |-> loc.res.data.element]), logT)

inputTextIntoElement(description, text, log, F, answer) ==
    LET loc    == locateElement(description, log, F, answer)
        logC   == Append(loc.calls, "clickAt")
        logT   == Append(logC, "type")
        failed == Fail(<<"Failed to input text into element", description, Cause>>)
    IN  IF ~loc.res.success THEN loc
        ELSE IF ~loc.res.data.hasPosition
        THEN Resolved(Fail(<<"Located element", description,
                             "but could not determine position for clicking">>),
                      loc.calls)
        ELSE IF PageFails(loc.calls, F) THEN Resolved(failed, logC)
        ELSE IF PageFails(logC, F) THEN Resolved(failed, logT)
        ELSE Resolved(OkWith([inputted |-> TRUE, text |-> text,
                              element |-> loc.res.data.element]), logT)

----------------------------------------------------------------------------
(* Plans *)

\* one entry of plan.actions: {type, params: {element, text, selector, optional},
\* optional}; pOptional is params.optional, optional the flag of the entry itself
Act(type, element, optional, pOptional) ==
    [ kind |-> "action", type |-> type, element |-> element, text |-> "hello",
      selector |-> "", optional |-> optional, pOptional |-> pOptional ]

\* an entry that is null
NullAction == [Act("", "", FALSE, FALSE) EXCEPT !.kind = "null"]

PlanActions ==
    { Act("click", "search button", FALSE, FALSE),
      Act("click", "missing", FALSE, FALSE),
      Act("click", "missing", TRUE, FALSE),
      Act("click", "missing", FALSE, TRUE),
      Act("input", "Text Field", FALSE, FALSE),
      Act("extract", "", FALSE, FALSE),
      Act("hover", "", FALSE, FALSE),
      NullAction }

RECURSIVE SeqsUpTo(_, _)
SeqsUpTo(S, n) ==
    IF n = 0 THEN {<<>>}
    ELSE LET shorter == SeqsUpTo(S, n - 1)
         IN  shorter \cup {Append(q, x) : q \in {r \in shorter : Len(r) = n - 1}, x \in S}

\* a made-up plan of two actions
MockPlanTwoActions ==
    << [Act("extract", "", FALSE, FALSE) EXCEPT !.selector = PlanSelector],
       Act("click", "search button", FALSE, FALSE) >>

\* the plan createPlanForPage makes up when midsceneCore.plan is no function
MockPlan == << [Act("extract", "", FALSE, FALSE) EXCEPT !.selector = PlanSelector] >>

\* the values of plan.actions handed to executePlan: every sequence of actions
\* up to the bound, and the plan createPlanForPage makes up
Plans == SeqsUpTo(PlanActions, MaxPlanLen) \cup {MockPlan}

\* the instructions handed to createPlanForPage
Instructions == {"find the news", "list the links"}

\* what midsceneCore.plan answers
PlanAnswers == { <<>>, <<Act("click", "search button", FALSE, FALSE)>> }

\* AIEnhancedAgent.createPlanForPage; `answer` is what midsceneCore.plan gives if asked
createPlanForPage(instruction, log, F, answer) ==
    LET ctx    == getPageContext(log, F)
        logP   == Append(ctx.calls, "plan")
        failed == Fail(<<"Failed to create plan">>
                       \o (IF ctx.ok THEN <<Cause>> ELSE ctx.err))
    IN  IF ~ctx.ok THEN Resolved(failed, ctx.calls)
        ELSE IF planCap
        THEN IF Faults(ctx.calls, F) THEN Resolved(failed, logP)
             ELSE Resolved(OkWith([plan |-> answer]), logP)
        ELSE Resolved(OkWith([plan |-> MockPlan]), ctx.calls)

AnalyzeInstruction == "Analyze this page and find the most important information"

\* navigateTo returning the result of the planning when the planning fails
AINavigateToPlanResult(url, F, answer) ==
    LET r == CrawlerNavigateTo(url, F) IN
    IF ~r.out.res.success THEN r
    ELSE IF options.autoPlan
    THEN LET p == createPlanForPage(AnalyzeInstruction, r.out.calls, F, answer)
         IN  [out |-> Resolved(IF p.res.success THEN r.out.res ELSE p.res, p.calls),
              st  |-> r.st]
    ELSE r

\* AIEnhancedAgent.navigateTo
\* navigateTo planning whatever useAutonomousPlanning says
AINavigateToAlwaysPlans(url, F, answer) ==
    LET r == CrawlerNavigateTo(url, F) IN
    IF ~r.out.res.success THEN r
    ELSE LET p == createPlanForPage(AnalyzeInstruction, r.out.calls, F, answer)
         IN  [out |-> Resolved(r.out.res, p.calls), st |-> r.st]

AINavigateTo(url, F, answer) ==
    LET r == CrawlerNavigateTo(url, F) IN
    IF ~r.out.res.success THEN r
    ELSE IF options.autoPlan
    THEN LET \* createPlanForPage runs on the page just loaded
             p == createPlanForPage(AnalyzeInstruction, r.out.calls, F, answer)
         IN  [out |-> Resolved(r.out.res, p.calls), st |-> r.st]
    ELSE r

\* one entry of the results of executePlan: {type, success, data, error}
StepResult(type, res) ==
    [ type |-> type, success |-> res.success, error |-> res.error,
      hasData |-> res.hasData, data |-> res.data ]

\* the switch of executePlan with its default falling into the extract case
PlanStepDefaultExtract(a, log, F, answer) ==
    CASE a.type = "click"   -> clickOnElement(a.element, log, F, answer)
      [] a.type = "input"   -> inputTextIntoElement(a.element, a.text, log, F, answer)
      [] OTHER              -> extractText(IF a.selector = "" THEN "body" ELSE a.selector,
                                           log, F)

\* the body of the switch of executePlan for one action
PlanStep(a, log, F, answer) ==
    CASE a.type = "click"   -> clickOnElement(a.element, log, F, answer)
      [] a.type = "input"   -> inputTextIntoElement(a.element, a.text, log, F, answer)
      [] a.type = "extract" -> extractText(IF a.selector = "" THEN "body" ELSE a.selector,
                                           log, F)
      [] OTHER              -> Resolved(Fail(<<"Unsupported action type:", a.type>>), log)

\* the return of executePlan with results.some in the place of results.every
PlanResultSome(results, log) ==
    Resolved([ success |-> \E i \in 1..Len(results) : results[i].success,
               error   |-> <<>>,
               hasData |-> TRUE,
               data    |-> [actions |-> results] ], log)

\* the return of executePlan after its loop
PlanResult(results, log) ==
    Resolved([ success |-> \A i \in 1..Len(results) : results[i].success,
               error   |-> <<>>,
               hasData |-> TRUE,
               data    |-> [actions |-> results] ], log)

\* the loop of executePlan from action i on, with `results` pushed so far
RECURSIVE PlanLoop(_, _, _, _, _, _)

\* the iteration breaking on every failed step, optional or not
PlanPushBreakAlways(actions, i, results, r, F, answer) ==
    IF ~r.res.success
    THEN PlanResult(Append(results, StepResult(actions[i].type, r.res)), r.calls)
    ELSE PlanLoop(actions, i + 1, Append(results, StepResult(actions[i].type, r.res)),
                  r.calls, F, answer)

\* the iteration without the break
PlanPushNoBreak(actions, i, results, r, F, answer) ==
    PlanLoop(actions, i + 1, Append(results, StepResult(actions[i].type, r.res)),
             r.calls, F, answer)

\* the rest of one iteration once the action has given its result r: the push,
\* and the break of a failed step whose params.optional is not set
PlanPush(actions, i, results, r, F, answer) ==
    IF ~r.res.success /\ ~actions[i].pOptional
    THEN PlanResult(Append(results, StepResult(actions[i].type, r.res)), r.calls)
    ELSE PlanLoop(actions, i + 1, Append(results, StepResult(actions[i].type, r.res)),
                  r.calls, F, answer)

PlanLoop(actions, i, results, log, F, answer) ==
    IF i > Len(actions) THEN PlanResult(results, log)
    ELSE IF actions[i].kind = "null"
    THEN \* action.type throws a TypeError, caught by the try of executePlan
         Resolved(Fail(<<"Failed to execute plan", Cause>>), log)
    ELSE CHOOSE out \in { PlanPush(actions, i, results, r, F, answer) :
                            r \in {PlanStep(actions[i], log, F, answer)} } : TRUE

\* AIEnhancedAgent.executePlan
executePlan(actions, F, answer) == PlanLoop(actions, 1, <<>>, <<>>, F, answer)

----------------------------------------------------------------------------
(* Timeouts.  Time is counted in ticks of ten seconds. *)

\* options.timeout || 30000: thirty seconds
DefaultTimeout == 3

\* a timeout handed over, or none: undefined, or a number of ticks
NoTimeout == [given |-> FALSE, ticks |-> 0]
Timeout(n) == [given |-> TRUE, ticks |-> n]

\* `t || d` of JavaScript: d when t is undefined or 0
OrElse(t, d) == IF t.given /\ t.ticks # 0 THEN t.ticks ELSE d

\* no call of waitForNavigation is observed
NoWait ==
    [ pc |-> "idle", configured |-> DefaultTimeout, arg |-> NoTimeout, timer |-> 0,
      elapsed |-> 0, resolved |-> "none", res |-> "none" ]

----------------------------------------------------------------------------
(* The state machine *)

NoCall ==
    [ op |-> "none", arg |-> <<>>, pre |-> FALSE, preBrowser |-> "unset",
      kind |-> "none", res |-> Ok, calls |-> <<>> ]

\* The configurations modelled: the options handed to the constructor together
\* with the functions @midscene/core exports.  No operation reads more than
\* two of these, and every pair of values it reads occurs.
Profiles ==
    { [browser |-> "", userAgent |-> FALSE, autoPlan |-> TRUE,
       locateCap |-> FALSE, planCap |-> FALSE],
      [browser |-> "playwright", userAgent |-> TRUE, autoPlan |-> TRUE,
       locateCap |-> TRUE, planCap |-> TRUE],
      [browser |-> "playwright", userAgent |-> FALSE, autoPlan |-> FALSE,
       locateCap |-> TRUE, planCap |-> FALSE],
      [browser |-> "playwright", userAgent |-> TRUE, autoPlan |-> FALSE,
       locateCap |-> FALSE, planCap |-> TRUE] }

Init ==
    /\ options = [browser |-> "none", userAgent |-> FALSE, autoPlan |-> TRUE]
    /\ isInitialized = FALSE
    /\ drvBrowser = "unset"
    /\ drvPage = "unset"
    /\ drvInits = 0
    /\ drvCloses = 0
    /\ screenshotCounter = 0
    /\ \E p \in Profiles : locateCap = p.locateCap /\ planCap = p.planCap
    /\ dom = BlankPage
    /\ pc = "idle"
    /\ last = NoCall
    /\ now = 0
    /\ written = <<>>
    /\ peerCounter = 0
    /\ flight = <<>>
    /\ trace = <<>>
    /\ readyState = "complete"
    /\ wait = NoWait

\* the agent exists and no call on it is in flight
Ready == pc = "idle" /\ options.browser # "none"

\* the call settles: `pre` and `preBrowser` are isInitialized and the session of
\* the adapter as the call found them
Settle(op, arg, out) ==
    /\ pc' = "returned"
    /\ last' = [ op |-> op, arg |-> arg, pre |-> isInitialized,
                 preBrowser |-> drvBrowser, kind |-> out.kind,
                 res |-> out.res, calls |-> out.calls ]
    /\ UNCHANGED beside

Becomes(st) ==
    /\ isInitialized' = st.isInitialized
    /\ drvBrowser' = st.drvBrowser
    /\ drvPage' = st.drvPage
    /\ drvInits' = st.drvInits
    /\ drvCloses' = st.drvCloses
    /\ screenshotCounter' = st.screenshotCounter
    /\ dom' = st.dom

Same ==
    UNCHANGED <<isInitialized, drvBrowser, drvPage, drvInits, drvCloses,
                screenshotCounter, dom>>

\* the faults of an operation of at most n calls: the call that faults, 0 for none
FaultChoices(n) == 0..n

\* the calls an operation makes when none of them faults: one of these, or none,
\* is the call that faults
FaultPoints(out) == 0..Len(out.calls)

\* what the reasoning service may answer; it is asked only when it is available
LocateChoices == IF locateCap THEN LocateAnswers ELSE {"none"}
PlanChoices == IF planCap THEN PlanAnswers ELSE {<<>>}

\* new AIEnhancedAgent(given), and new AIEnhancedAgent({browser: 'webkit'})
Construct ==
    /\ pc = "idle" /\ options.browser = "none"
    /\ \E p \in Profiles, type \in EngineNames :
          /\ p.locateCap = locateCap /\ p.planCap = planCap
          /\ type \in {p.browser, "webkit"}
          /\ IF Constructor(type) = "none"
             THEN /\ Settle("constructor", type, Thrown("Unsupported browser type", <<>>))
                  /\ UNCHANGED options
             ELSE /\ Settle("constructor", type, Value(NoData, <<>>))
                  /\ options' = [browser |-> Constructor(type), userAgent |-> p.userAgent,
                                 autoPlan |-> p.autoPlan]
    /\ Same
    /\ UNCHANGED <<locateCap, planCap>>

Initialize ==
    /\ Ready
    /\ \E stage \in InitStages, F \in FaultChoices(2) :
          LET r == AIInitialize(stage, F) IN
          Settle("initialize", stage, r.out) /\ Becomes(r.st)
    /\ UNCHANGED <<options, locateCap, planCap>>

Close ==
    /\ Ready
    /\ \E F \in FaultChoices(1) :
          LET r == CrawlerClose(F) IN
          Settle("close", "", r.out) /\ Becomes(r.st)
    /\ UNCHANGED <<options, locateCap, planCap>>

NavigateTo ==
    /\ Ready
    /\ \E url \in Urls, answer \in PlanChoices :
       \E F \in FaultPoints(AINavigateTo(url, 0, answer).out) :
          LET r == AINavigateTo(url, F, answer) IN
          Settle("navigateTo", url, r.out) /\ Becomes(r.st)
    /\ UNCHANGED <<options, locateCap, planCap>>

\* an operation that leaves the state of the agent alone
Pure(op, arg, out) ==
    /\ Settle(op, arg, out)
    /\ Same
    /\ UNCHANGED <<options, locateCap, planCap>>

GetCurrentUrl ==
    Ready /\ \E F \in FaultChoices(1) : Pure("getCurrentUrl", "", getCurrentUrl(<<>>, F))

GetPageTitle ==
    Ready /\ \E F \in FaultChoices(1) : Pure("getPageTitle", "", getPageTitle(<<>>, F))

ClickElement ==
    Ready /\ \E sel \in Selectors, F \in FaultChoices(3) :
                Pure("clickElement", sel, clickElement(sel, <<>>, F))

TypeText ==
    Ready /\ \E sel \in {"", "#q", "#missing"}, F \in FaultChoices(2) :
                Pure("typeText", sel, typeText("hello", sel, <<>>, F))

PressKey ==
    Ready /\ \E F \in FaultChoices(1) : Pure("pressKey", "Enter", pressKey("Enter", <<>>, F))

Scroll ==
    Ready /\ \E dir \in {"up", "down"}, F \in FaultChoices(1) :
                Pure("scroll", dir, scroll(dir, <<>>, F))

ExtractText ==
    Ready /\ \E sel \in Selectors, F \in FaultChoices(1) :
                Pure("extractText", sel, extractText(sel, <<>>, F))

ExtractionSpecs ==
    { [title |-> "h1", items |-> "p"],
      [title |-> "#q", items |-> "button"],
      [title |-> "p", items |-> "h1"],
      [title |-> "h1", items |-> ContainsSelector("News")] }

ExtractData ==
    Ready /\ \E spec \in ExtractionSpecs, F \in FaultChoices(1) :
                Pure("extractData", spec, extractData(spec, <<>>, F))

TakeScreenshot ==
    Ready /\ \E F \in FaultChoices(1) : Pure("takeScreenshot", "", takeScreenshot(<<>>, F))

WaitForNavigation ==
    Ready /\ \E F \in FaultChoices(1) :
                Pure("waitForNavigation", "", waitForNavigation(<<>>, F))

LocateElement ==
    Ready /\ \E d \in Descriptions, answer \in LocateChoices :
             \E F \in FaultPoints(locateElement(d, <<>>, 0, answer)) :
                Pure("locateElement", d, locateElement(d, <<>>, F, answer))

ClickOnElement ==
    Ready /\ \E d \in Descriptions, answer \in LocateChoices :
             \E F \in FaultPoints(clickOnElement(d, <<>>, 0, answer)) :
                Pure("clickOnElement", d, clickOnElement(d, <<>>, F, answer))

InputTextIntoElement ==
    Ready /\ \E d \in Descriptions, answer \in LocateChoices :
             \E F \in FaultPoints(inputTextIntoElement(d, "hello", <<>>, 0, answer)) :
                Pure("inputTextIntoElement", d,
                     inputTextIntoElement(d, "hello", <<>>, F, answer))

CreatePlanForPage ==
    Ready /\ \E instruction \in Instructions, answer \in PlanChoices :
             \E F \in FaultPoints(createPlanForPage(instruction, <<>>, 0, answer)) :
                Pure("createPlanForPage", instruction,
                     createPlanForPage(instruction, <<>>, F, answer))

ExecutePlan ==
    Ready /\ \E plan \in Plans, answer \in LocateChoices :
             \E F \in FaultPoints(executePlan(plan, 0, answer)) :
                Pure("executePlan", plan, executePlan(plan, F, answer))

\* the caller takes the outcome of its call
Return ==
    /\ pc = "returned"
    /\ pc' = "idle"
    /\ last' = NoCall
    /\ Same
    /\ UNCHANGED <<options, locateCap, planCap>>
    /\ UNCHANGED beside

Next ==
    \/ Construct \/ Initialize \/ Close \/ NavigateTo
    \/ GetCurrentUrl \/ GetPageTitle
    \/ ClickElement \/ TypeText \/ PressKey \/ Scroll
    \/ ExtractText \/ ExtractData \/ TakeScreenshot \/ WaitForNavigation
    \/ LocateElement \/ ClickOnElement \/ InputTextIntoElement
    \/ CreatePlanForPage \/ ExecutePlan
    \/ Return

Spec == Init /\ [][Next]_vars

----------------------------------------------------------------------------
(* The screenshot files.  Two agents, made with the same outputDir (the
   default is './crawler-ai-output' for every agent), save screenshots to
   <outputDir>/screenshots: the agent of the model and a peer, of which only
   the counter is kept.  saveScreenshot is synchronous and may run twice in a
   millisecond; initialize launches an engine and takes a millisecond at least. *)

\* `screenshot-${Date.now()}-${++this.screenshotCounter}.jpg`: the digits of the
\* two numbers with a dash between them, kept as the two numbers
Filename(ms, counter) == [ms |-> ms, counter |-> counter]

\* both agents constructed, neither initialized, nothing written
ShotInit ==
    /\ options = [browser |-> "playwright", userAgent |-> FALSE, autoPlan |-> FALSE]
    /\ isInitialized = FALSE
    /\ drvBrowser = "unset"
    /\ drvPage = "unset"
    /\ drvInits = 0
    /\ drvCloses = 0
    /\ screenshotCounter = 0
    /\ locateCap = FALSE /\ planCap = FALSE
    /\ dom = BlankPage
    /\ pc = "idle"
    /\ last = NoCall
    /\ now = 0
    /\ written = <<>>
    /\ peerCounter = 0
    /\ flight = <<>>
    /\ trace = <<>>
    /\ readyState = "complete"
    /\ wait = NoWait

\* AIEnhancedAgent.initialize succeeding, on the agent
ShotInitialize ==
    /\ now < MaxNow
    /\ Becomes(AIInitialize("ok", 0).st)
    /\ now' \in (now + 1)..MaxNow
    /\ UNCHANGED <<options, locateCap, planCap, pc, last, written, peerCounter, flight, trace,
                 readyState, wait>>

\* AIEnhancedAgent.initialize succeeding, on the peer
PeerInitialize ==
    /\ now < MaxNow
    /\ peerCounter' = 0
    /\ now' \in (now + 1)..MaxNow
    /\ Same
    /\ UNCHANGED <<options, locateCap, planCap, pc, last, written, flight, trace,
                 readyState, wait>>

\* AIEnhancedAgent.saveScreenshot on the agent: the counter is incremented when
\* the name is made; writeFileSync writes the file, or throws and nothing is
\* written
SaveScreenshot ==
    /\ Len(written) < MaxShots /\ screenshotCounter < MaxShots
    /\ screenshotCounter' = screenshotCounter + 1
    /\ \E thrown \in BOOLEAN :
          written' = IF thrown THEN written
                     ELSE Append(written, [by |-> "agent",
                                           name |-> Filename(now, screenshotCounter + 1)])
    /\ UNCHANGED <<isInitialized, drvBrowser, drvPage, drvInits, drvCloses, dom>>
    /\ UNCHANGED <<options, locateCap, planCap, pc, last, now, peerCounter, flight, trace,
                 readyState, wait>>

\* AIEnhancedAgent.saveScreenshot on the peer
PeerSaveScreenshot ==
    /\ Len(written) < MaxShots /\ peerCounter < MaxShots
    /\ peerCounter' = peerCounter + 1
    /\ \E thrown \in BOOLEAN :
          written' = IF thrown THEN written
                     ELSE Append(written, [by |-> "peer",
                                           name |-> Filename(now, peerCounter + 1)])
    /\ Same
    /\ UNCHANGED <<options, locateCap, planCap, pc, last, now, flight, trace,
                   readyState, wait>>

\* a millisecond passes
Tick ==
    /\ now < MaxNow
    /\ now' = now + 1
    /\ Same
    /\ UNCHANGED <<options, locateCap, planCap, pc, last, written, peerCounter, flight, trace,
                 readyState, wait>>

ShotNext ==
    \/ ShotInitialize \/ PeerInitialize
    \/ SaveScreenshot \/ PeerSaveScreenshot
    \/ Tick

ShotSpec == ShotInit /\ [][ShotNext]_vars

----------------------------------------------------------------------------
(* Calls that overlap.  An async method runs to its first await when it is
   called, and from one await to the next when the promise it awaits settles:
   a caller that does not await a call before it makes the next has both in
   flight, and the engine settles their driver calls in whatever order. *)

AsyncOps == {"clickElement", "pressKey", "close"}

\* the driver calls of the operation, each made when the one before it has
\* resolved: clickElement on an element that exists, pressKey, close
Script(op) ==
    CASE op = "clickElement" -> <<"evaluate", "evaluate", "clickAt">>
      [] op = "pressKey"     -> <<"press">>
      [] op = "close"        -> <<"close">>

Event(i, call, ev) == [inv |-> i, call |-> call, ev |-> ev]

\* an initialized agent with the fixture page open, no call in flight
AsyncInit ==
    /\ options = [browser |-> "playwright", userAgent |-> FALSE, autoPlan |-> FALSE]
    /\ isInitialized = TRUE
    /\ drvBrowser = "open"
    /\ drvPage = "open"
    /\ drvInits = 1
    /\ drvCloses = 0
    /\ screenshotCounter = 0
    /\ locateCap = FALSE /\ planCap = FALSE
    /\ dom = FixturePage
    /\ pc = "idle"
    /\ last = NoCall
    /\ now = 0
    /\ written = <<>>
    /\ peerCounter = 0
    /\ flight = <<>>
    /\ trace = <<>>
    /\ readyState = "complete"
    /\ wait = NoWait

\* a call is made: the method reads isInitialized and, initialized, makes its
\* first driver call before it yields
Invoke ==
    /\ Len(flight) < MaxCalls
    /\ \E op \in AsyncOps :
          LET i == Len(flight) + 1 IN
          IF isInitialized
          THEN /\ flight' = Append(flight, [op |-> op, at |-> 1, res |-> "pending"])
               /\ trace' = Append(trace, Event(i, Script(op)[1], "start"))
          ELSE /\ flight' = Append(flight,
                               [op |-> op, at |-> 0,
                                res |-> IF op = "close" THEN "void" ELSE "not initialized"])
               /\ trace' = Append(trace, Event(i, "", "return"))
    /\ Same
    /\ UNCHANGED <<options, locateCap, planCap, pc, last, now, written, peerCounter,
                   readyState, wait>>

\* the driver call a call awaits settles, and the method runs on: to its next
\* driver call, or to its return
Complete ==
    \E i \in 1..Len(flight), fault \in BOOLEAN :
        LET c    == flight[i]
            call == Script(c.op)[c.at]
            d    == PlaywrightClose(fault)
            ends == Append(trace, Event(i, call, "end"))
            done(res) == /\ flight' = [flight EXCEPT ![i].res = res]
                         /\ trace' = Append(ends, Event(i, "", "return"))
        IN  /\ c.res = "pending"
            /\ IF call = "close"
               THEN /\ IF d.ok THEN done("void") ELSE done("throw")
                    /\ isInitialized' = IF d.ok THEN FALSE ELSE isInitialized
                    /\ drvBrowser' = d.browser
                    /\ drvPage' = d.page
                    /\ dom' = d.dom
                    /\ drvCloses' = Counted(drvCloses)
                    /\ UNCHANGED <<drvInits, screenshotCounter>>
               ELSE /\ IF fault \/ drvPage \notin {"open", "stale"}
                       THEN done("failure")
                       ELSE IF c.at < Len(Script(c.op))
                       THEN /\ flight' = [flight EXCEPT ![i].at = c.at + 1]
                            /\ trace' = Append(ends, Event(i, Script(c.op)[c.at + 1], "start"))
                       ELSE done("success")
                    /\ Same
            /\ UNCHANGED <<options, locateCap, planCap, pc, last, now, written,
                           peerCounter, readyState, wait>>

AsyncNext == Invoke \/ Complete

AsyncSpec == AsyncInit /\ [][AsyncNext]_vars

----------------------------------------------------------------------------
(* waitForNavigation, step by step.  The method hands a script to evaluate;
   the script makes a promise that resolves true when document.readyState is
   complete, at once or at a readystatechange event, and false when its timer
   fires; the method returns when evaluate settles. *)

Timeouts == {NoTimeout} \cup {Timeout(n) : n \in 0..MaxTimeout}

ReadyStates == <<"loading", "interactive", "complete">>

\* an initialized agent, made with some timeout option, with a page open that
\* is at some stage of loading
WaitInit ==
    /\ options = [browser |-> "playwright", userAgent |-> FALSE, autoPlan |-> FALSE]
    /\ isInitialized = TRUE
    /\ drvBrowser = "open"
    /\ drvPage = "open"
    /\ drvInits = 1
    /\ drvCloses = 0
    /\ screenshotCounter = 0
    /\ locateCap = FALSE /\ planCap = FALSE
    /\ dom = FixturePage
    /\ pc = "idle"
    /\ last = NoCall
    /\ now = 0
    /\ written = <<>>
    /\ peerCounter = 0
    /\ flight = <<>>
    /\ trace = <<>>
    /\ readyState \in {ReadyStates[i] : i \in 1..3}
    /\ \E given \in Timeouts :
          wait = [NoWait EXCEPT !.configured = OrElse(given, DefaultTimeout)]

WaitSame ==
    /\ Same
    /\ UNCHANGED <<options, locateCap, planCap, pc, last, now, written, peerCounter,
                   flight, trace>>

\* a timer that is due as soon as it is set
DueAtOnce(w) == TRUE

\* the timer of the promise is due
Due(w) == w.elapsed >= w.timer

\* waitForNavigation(timeout) is called: evaluate starts the script with
\* `timeout || this.options.timeout`; the script checks the ready state and sets
\* its timer to `timeout || 30000`
WaitCall ==
    /\ wait.pc = "idle" /\ isInitialized
    /\ \E arg \in Timeouts :
          LET passed == OrElse(arg, wait.configured) IN
          wait' = [wait EXCEPT !.pc = "waiting", !.arg = arg,
                               !.timer = OrElse(Timeout(passed), DefaultTimeout),
                               !.elapsed = 0,
                               !.resolved = IF readyState = "complete" THEN "complete"
                                            ELSE "none",
                               !.res = "none"]
    /\ UNCHANGED readyState
    /\ WaitSame

\* the page loads on: the next ready state, and the readystatechange listener
\* of a waiting script
PageProgress ==
    /\ \E i \in 1..2 : readyState = ReadyStates[i] /\ readyState' = ReadyStates[i + 1]
    /\ wait' = IF wait.pc = "waiting" /\ wait.resolved = "none" /\ readyState' = "complete"
                THEN [wait EXCEPT !.resolved = "complete"]
                ELSE wait
    /\ WaitSame

\* time passes while the script waits
WaitTick ==
    /\ wait.pc = "waiting" /\ wait.resolved = "none" /\ ~Due(wait)
    /\ wait' = [wait EXCEPT !.elapsed = @ + 1]
    /\ UNCHANGED readyState
    /\ WaitSame

\* the timer fires: resolve(false)
TimerFires ==
    /\ wait.pc = "waiting" /\ wait.resolved = "none" /\ Due(wait)
    /\ wait' = [wait EXCEPT !.resolved = "timeout"]
    /\ UNCHANGED readyState
    /\ WaitSame

\* evaluate resolves with what the promise resolved with; the method returns
\* { success: true } whichever it is
WaitReturns ==
    /\ wait.pc = "waiting" /\ wait.resolved # "none"
    /\ wait' = [wait EXCEPT !.pc = "returned", !.res = "success"]
    /\ UNCHANGED readyState
    /\ WaitSame

\* evaluate rejects, the page having navigated, crashed or closed under the
\* script; the method returns the failure 'Failed to wait for navigation'
WaitFaults ==
    /\ wait.pc = "waiting"
    /\ wait' = [wait EXCEPT !.pc = "returned", !.res = "failure"]
    /\ UNCHANGED readyState
    /\ WaitSame

\* the caller takes the result; the page it has may be loading again
WaitTaken ==
    /\ wait.pc = "returned"
    /\ wait' = [NoWait EXCEPT !.configured = wait.configured]
    /\ readyState' \in {readyState, "loading"}
    /\ WaitSame

WaitNext ==
    \/ WaitCall \/ PageProgress \/ WaitTick \/ TimerFires
    \/ WaitReturns \/ WaitFaults \/ WaitTaken

\* time passes, a timer that is due fires, and a settled promise is taken up
\* by the method that awaits it
WaitSpec ==
    /\ WaitInit /\ [][WaitNext]_vars
    /\ WF_vars(WaitTick) /\ WF_vars(TimerFires) /\ WF_vars(WaitReturns)

----------------------------------------------------------------------------
(* The keyword classification of locateElement.  @midscene/core exports no
   AiLocateElement, the agent is initialized, and a page with a link, a field
   and a button, or the fixture page, is open; locateElement is called with
   descriptions that hold several of the keywords, in either case. *)

\* <a>Next</a>, <textarea>, <button>Go</button>
LinksPage ==
    << El("body",     "", "",       "Next Go", Rect(0, 0, 1280, 40)),
       El("a",        "", "",       "Next",    Rect(10, 10, 60, 20)),
       El("textarea", "", "",       "",        Rect(80, 10, 200, 20)),
       El("button",   "", "",       "Go",      Rect(290, 10, 40, 20)) >>

KeywordDescriptions ==
    Descriptions \cup {"Link Button", "BUTTON text", "link in field", "TEXT link",
                       "Input", "next LINK"}

KeywordInit ==
    /\ options = [browser |-> "playwright", userAgent |-> FALSE, autoPlan |-> FALSE]
    /\ isInitialized = TRUE
    /\ drvBrowser = "open"
    /\ drvPage = "open"
    /\ drvInits = 1
    /\ drvCloses = 0
    /\ screenshotCounter = 0
    /\ locateCap = FALSE /\ planCap = FALSE
    /\ dom \in {FixturePage, LinksPage}
    /\ pc = "idle"
    /\ last = NoCall
    /\ now = 0
    /\ written = <<>>
    /\ peerCounter = 0
    /\ flight = <<>>
    /\ trace = <<>>
    /\ readyState = "complete"
    /\ wait = NoWait

\* locateElement(d)
KeywordLocate ==
    Ready /\ \E d \in KeywordDescriptions :
             \E F \in FaultPoints(locateElement(d, <<>>, 0, "none")) :
                Pure("locateElement", d, locateElement(d, <<>>, F, "none"))

KeywordNext == KeywordLocate \/ Return

KeywordSpec == KeywordInit /\ [][KeywordNext]_vars

----------------------------------------------------------------------------
(* The document tree of the page context.  Here the document is a tree: `dom`
   holds its elements in document order, each with its depth below <body> and
   the text of its own text node, as characters; an element is the parent of
   the elements after it that lie one level deeper, up to the next element
   that is no deeper than itself.  Scripts of the page add elements; the
   agent, initialized, captures the page context. *)

MaxNodes == 6
PieceLen == 40

\* getBasicDOMStructure(element, depth = 0, maxDepth = 3)
DefaultMaxDepth == 3
\* substring(0, 100)
TextLimit == 100

Node(tag, depth, own) == [tag |-> tag, depth |-> depth, own |-> own]

\* a text node of PieceLen characters that begins and ends with a blank
Piece == [i \in 1..PieceLen |-> IF i \in {1, PieceLen} THEN " " ELSE "x"]

OwnTexts == {<<>>, Piece}

\* the last element of the subtree of element i
SubtreeEnd(i) ==
    CHOOSE j \in i..Len(dom) :
        /\ \A k \in (i + 1)..j : dom[k].depth > dom[i].depth
        /\ j < Len(dom) => dom[j + 1].depth <= dom[i].depth

\* element.children, as positions in the document
Children(i) ==
    SelectSeq([k \in 1..(SubtreeEnd(i) - i) |-> i + k],
              LAMBDA j : dom[j].depth = dom[i].depth + 1)

\* the text nodes of elements from..to, joined in document order
RECURSIVE Joined(_, _)
Joined(from, to) ==
    IF from > to THEN <<>> ELSE dom[from].own \o Joined(from + 1, to)

\* element.textContent
TextContent(i) == Joined(i, SubtreeEnd(i))

\* String.prototype.trim on characters
TrimChars(s) ==
    IF \A k \in 1..Len(s) : s[k] = " " THEN <<>>
    ELSE SubSeq(s, CHOOSE a \in 1..Len(s) :
                       s[a] # " " /\ \A k \in 1..(a - 1) : s[k] = " ",
                   CHOOSE b \in 1..Len(s) :
                       s[b] # " " /\ \A k \in (b + 1)..Len(s) : s[k] = " ")

\* String.prototype.substring(start, end), 0 <= start <= end
Substring(s, start, end) ==
    SubSeq(s, start + 1, IF end < Len(s) THEN end ELSE Len(s))

\* what getBasicDOMStructure returns beyond maxDepth
Null == [tag |-> "null", hasText |-> FALSE, text |-> <<>>, children |-> <<>>]

\* the walk without `if (depth > maxDepth) return null`
RECURSIVE getBasicDOMStructureWhole(_, _, _)
getBasicDOMStructureWhole(element, depth, maxDepth) ==
    [ tag      |-> dom[element].tag,
      hasText  |-> TrimChars(TextContent(element)) # <<>>,
      text     |-> Substring(TrimChars(TextContent(element)), 0, TextLimit),
      children |-> [k \in 1..Len(Children(element)) |->
                       getBasicDOMStructureWhole(Children(element)[k],
                                                 depth + 1, maxDepth)] ]

\* getBasicDOMStructure of the script of getPageContext; a text or children
\* that are undefined are empty here, and id and className are left out
RECURSIVE getBasicDOMStructure(_, _, _)
getBasicDOMStructure(element, depth, maxDepth) ==
    IF depth > maxDepth THEN Null
    ELSE [ tag      |-> dom[element].tag,
           hasText  |-> TrimChars(TextContent(element)) # <<>>,
           text     |-> Substring(TrimChars(TextContent(element)), 0, TextLimit),
           children |-> SelectSeq(
                            [k \in 1..Len(Children(element)) |->
                                getBasicDOMStructure(Children(element)[k],
                                                     depth + 1, maxDepth)],
                            LAMBDA c : c # Null) ]

\* getPageContext with the tree it returns
PageContext(F) ==
    LET ctx == getPageContext(<<>>, F) IN
    IF ctx.ok
    THEN Value([tree |-> getBasicDOMStructure(1, 0, DefaultMaxDepth)], ctx.calls)
    ELSE [kind |-> "throw", res |-> Fail(ctx.err), calls |-> ctx.calls]

TreeInit ==
    /\ options = [browser |-> "playwright", userAgent |-> FALSE, autoPlan |-> FALSE]
    /\ isInitialized = TRUE
    /\ drvBrowser = "open"
    /\ drvPage = "open"
    /\ drvInits = 1
    /\ drvCloses = 0
    /\ screenshotCounter = 0
    /\ locateCap = FALSE /\ planCap = FALSE
    /\ \E own \in OwnTexts : dom = << Node("body", 0, own) >>
    /\ pc = "idle"
    /\ last = NoCall
    /\ now = 0
    /\ written = <<>>
    /\ peerCounter = 0
    /\ flight = <<>>
    /\ trace = <<>>
    /\ readyState = "complete"
    /\ wait = NoWait

\* a script of the page appends an element: a child of the last element, or a
\* child of one of its ancestors
AddElement ==
    /\ pc = "idle"
    /\ Len(dom) < MaxNodes
    /\ \E depth \in 1..(dom[Len(dom)].depth + 1), own \in OwnTexts :
          dom' = Append(dom, Node("div", depth, own))
    /\ UNCHANGED <<options, isInitialized, drvBrowser, drvPage, drvInits, drvCloses,
                   screenshotCounter, locateCap, planCap, pc, last>>
    /\ UNCHANGED beside

\* the agent captures the page context
CaptureContext ==
    /\ Ready
    /\ \E F \in FaultChoices(Len(ContextQueries) + 1) :
          Pure("getPageContext", "", PageContext(F))

TreeNext == AddElement \/ CaptureContext \/ Return

TreeSpec == TreeInit /\ [][TreeNext]_vars

----------------------------------------------------------------------------
(* clickAt of the driver adapter, await by await.  The method awaits
   page.mouse.click, then awaits page.waitForLoadState('networkidle') with a
   catch on it that returns nothing; the engine settles each of the two
   promises, the second by the network falling idle, by its timeout, or by a
   failure of the page.  The calls are made one after the other. *)

MaxClicks == 3

\* how the engine may settle waitForLoadState
LoadStateOutcomes == {"end", "timeout", "throw"}

\* the promise without its catch: it settles as waitForLoadState does
Uncaught(how) == how

\* .catch(() => {}): the promise awaited is fulfilled however the wait settled
Caught(how) == "end"

\* the call in flight, if there is one
Clicking == flight # <<>> /\ flight[Len(flight)].res = "pending"

\* clickAt(x, y) is called and calls page.mouse.click(x, y)
ClickAtCall ==
    /\ Len(flight) < MaxClicks
    /\ ~Clicking
    /\ flight' = Append(flight, [op |-> "clickAt", at |-> 1, res |-> "pending",
                                 settled |-> "none"])
    /\ trace' = Append(trace, Event(Len(flight) + 1, "mouse.click", "start"))
    /\ Same
    /\ UNCHANGED <<options, locateCap, planCap, pc, last, now, written, peerCounter,
                   readyState, wait>>

\* mouse.click settles: clickAt throws, or goes on to waitForLoadState
MouseClickSettles ==
    /\ Clicking /\ flight[Len(flight)].at = 1
    /\ \E fault \in BOOLEAN :
          LET i == Len(flight) IN
          IF fault \/ drvPage \notin {"open", "stale"}
          THEN /\ flight' = [flight EXCEPT ![i].res = "throw"]
               /\ trace' = trace \o << Event(i, "mouse.click", "throw"),
                                        Event(i, "", "throw") >>
          ELSE /\ flight' = [flight EXCEPT ![i].at = 2]
               /\ trace' = trace \o << Event(i, "mouse.click", "end"),
                                        Event(i, "waitForLoadState", "start") >>
    /\ Same
    /\ UNCHANGED <<options, locateCap, planCap, pc, last, now, written, peerCounter,
                   readyState, wait>>

\* waitForLoadState settles, and its catch with it
LoadStateSettles ==
    /\ Clicking /\ flight[Len(flight)].at = 2
    /\ \E how \in LoadStateOutcomes :
          LET i == Len(flight) IN
          /\ flight' = [flight EXCEPT ![i].at = 3, ![i].settled = Caught(how)]
          /\ trace' = Append(trace, Event(i, "waitForLoadState", how))
    /\ Same
    /\ UNCHANGED <<options, locateCap, planCap, pc, last, now, written, peerCounter,
                   readyState, wait>>

\* clickAt runs on from its second await: to its end, or out by the rejection
ClickAtReturns ==
    /\ Clicking /\ flight[Len(flight)].at = 3
    /\ LET i == Len(flight) IN
       IF flight[i].settled = "end"
       THEN /\ flight' = [flight EXCEPT ![i].res = "void"]
            /\ trace' = Append(trace, Event(i, "", "return"))
       ELSE /\ flight' = [flight EXCEPT ![i].res = "throw"]
            /\ trace' = Append(trace, Event(i, "", "throw"))
    /\ Same
    /\ UNCHANGED <<options, locateCap, planCap, pc, last, now, written, peerCounter,
                   readyState, wait>>

ClickNext == ClickAtCall \/ MouseClickSettles \/ LoadStateSettles \/ ClickAtReturns

\* the adapter of an initialized agent with the fixture page open
ClickSpec == AsyncInit /\ [][ClickNext]_vars

----------------------------------------------------------------------------
(* Properties *)

\* the operations of the base agent that act on the page
ActionOps ==
    { "navigateTo", "clickElement", "typeText", "pressKey", "scroll", "extractText",
      "extractData", "takeScreenshot", "waitForNavigation" }

\* the operations declared to return an Action Result
ResultOps ==
    ActionOps \cup { "initialize", "locateElement", "clickOnElement",
                     "inputTextIntoElement", "createPlanForPage", "executePlan" }

\* the operations declared to return something else, and the constructor
OtherOps == { "constructor", "getCurrentUrl", "getPageTitle", "close" }

\* C1: an action operation of the base agent called while the agent is not
\* Initialized returns exactly {success: false, error: "Browser not initialized"},
\* without data, and makes no call on the driver adapter.
C1_NotInitializedGuard ==
    (last.op \in ActionOps /\ ~last.pre) =>
        /\ last.kind = "result"
        /\ ~last.res.success
        /\ last.res.error = <<"Browser not initialized">>
        /\ ~last.res.hasData
        /\ last.calls = <<>>

\* clickElement was called on an agent that close() had closed
C1_Witness ==
    /\ last.op = "clickElement" /\ ~last.pre /\ last.preBrowser = "closed"
    /\ last.res.error = <<"Browser not initialized">>

\* C2 as stated: every returned Action Result with success = false has its
\* error populated and its data absent, executePlan included.
C2_Original ==
    (last.kind = "result" /\ ~last.res.success) =>
        (last.res.error # <<>> /\ ~last.res.hasData)

\* a failed result of executePlan that reports its steps: some step failed
PlanReport(res) ==
    /\ res.error = <<>>
    /\ res.hasData
    /\ \E i \in 1..Len(res.data.actions) : ~res.data.actions[i].success

\* C2, amended: a returned Action Result with success = false has its error
\* populated and its data absent for every operation other than executePlan; a
\* failed result of executePlan either has its error populated and no data, or
\* has no error and carries data.actions with the failed step in it.
C2_FailureShape ==
    (last.kind = "result" /\ ~last.res.success) =>
        IF last.op = "executePlan"
        THEN (last.res.error # <<>> /\ ~last.res.hasData) \/ PlanReport(last.res)
        ELSE last.res.error # <<>> /\ ~last.res.hasData

\* clickOnElement located its element and failed on the click
C2_Witness ==
    /\ last.op = "clickOnElement" /\ last.kind = "result" /\ ~last.res.success
    /\ Len(last.calls) > 0 /\ last.calls[Len(last.calls)] = "clickAt"

C4_Original ==
    (last.op # "none" /\ ~last.pre /\ last.preBrowser = "closed") => ~isInitialized

\* C4, amended: the lifecycle only moves forward except through initialize(): a
\* call that finds the agent not Initialized, closed or never initialized, leaves
\* it Initialized only if it is an initialize() that returns success.
C4_OnlyInitializeInitializes ==
    (pc = "returned" /\ ~last.pre /\ isInitialized) =>
        (last.op = "initialize" /\ last.kind = "result" /\ last.res.success)

\* initialize() was called on an agent that close() had closed, and succeeded
C4_Witness ==
    /\ last.op = "initialize" /\ ~last.pre /\ last.preBrowser = "closed"
    /\ last.res.success /\ isInitialized

\* C5: an initialize() that fails returns {success: false, error} and leaves the
\* agent not Initialized with no engine session open.
C5_FailedInitializeLeavesNothing ==
    (last.op = "initialize" /\ ~last.res.success) =>
        /\ last.res.error # <<>>
        /\ ~isInitialized
        /\ drvBrowser # "open"

\* the number of calls of `name` in a call log
Count(calls, name) == Cardinality({i \in 1..Len(calls) : calls[i] = name})

ClosesBefore == IF Count(last.calls, "close") > 0 THEN drvCloses - 1 ELSE drvCloses

C9_OptionalFlagContinues ==
    (last.op = "executePlan" /\ last.kind = "result" /\ last.res.hasData) =>
        \A i \in 1..Len(last.res.data.actions) :
            ( /\ ~last.res.data.actions[i].success
              /\ last.arg[i].optional
              /\ i < Len(last.arg) ) => Len(last.res.data.actions) > i

\* C10: the overall success of executePlan is true exactly when every step it
\* attempted succeeded: a failed step, optional or not, makes it false, and so
\* does an entry of the plan that cannot be read as an action.
C10_SuccessIffAllSucceeded ==
    (last.op = "executePlan" /\ last.kind = "result") =>
        IF last.res.hasData
        THEN last.res.success <=>
                 \A i \in 1..Len(last.res.data.actions) : last.res.data.actions[i].success
        ELSE /\ ~last.res.success
             /\ \E i \in 1..Len(last.arg) : last.arg[i].kind = "null"

\* a step with params.optional failed, the step after it succeeded, and the
\* overall success is false
C10_Witness ==
    /\ last.op = "executePlan" /\ last.kind = "result" /\ last.res.hasData
    /\ Len(last.res.data.actions) = 2
    /\ last.arg[1].pOptional /\ ~last.res.data.actions[1].success
    /\ last.res.data.actions[2].success
    /\ ~last.res.success

\* the step i of the plan succeeded or had the optional flag executePlan reads
StepPassed(plan, results, i) == results[i].success \/ plan[i].pOptional

C12_ResultsNeverLost ==
    last.op = "executePlan" =>
        /\ last.kind = "result"
        /\ last.res.hasData
        /\ Len(last.arg) > 0 => Len(last.res.data.actions) > 0

SupportedTypes == {"click", "input", "extract"}

\* C13: in executePlan an action whose type is not click, input or extract is
\* recorded as a failed step whose error names the type, and no call is made on
\* the driver or the reasoning service for it: the calls are those of the plan
\* cut before that step.
C13_UnsupportedType ==
    [](Ready =>
        \A plan \in Plans, answer \in LocateChoices :
            \A F \in FaultPoints(executePlan(plan, 0, answer)) :
                LET out     == executePlan(plan, F, answer)
                    results == out.res.data.actions
                IN  out.res.hasData =>
                        \A i \in 1..Len(results) :
                            plan[i].type \notin SupportedTypes =>
                                /\ ~results[i].success
                                /\ results[i].type = plan[i].type
                                /\ results[i].error =
                                       <<"Unsupported action type:", plan[i].type>>
                                /\ executePlan(SubSeq(plan, 1, i), F, answer).calls
                                     = executePlan(SubSeq(plan, 1, i - 1), F, answer).calls)

\* a hover came after an extract that ran: the hover is the failed second entry
\* and the calls are those of the extract
C13_Witness ==
    /\ last.op = "executePlan" /\ last.pre /\ last.kind = "result" /\ last.res.hasData
    /\ Len(last.res.data.actions) = 2
    /\ last.arg[1].type = "extract" /\ last.res.data.actions[1].success
    /\ last.arg[2].type = "hover" /\ ~last.res.data.actions[2].success
    /\ last.calls = <<"evaluate">>

\* C14: a fault of the reasoning service alone never makes locateElement return
\* a failure without the heuristic selector having been tried: when the call of
\* the locate capability faults, the heuristic query is made after it.
C14_ServiceFaultFallsBack ==
    ( /\ last.op = "locateElement" /\ last.kind = "result" /\ ~last.res.success
      /\ last.res.error[1] = "Failed to locate element"
      /\ Count(last.calls, "AiLocateElement") = 1 ) =>
        last.calls[Len(last.calls)] # "AiLocateElement"

\* C15: when the locate capability returns at least one matched element,
\* locateElement returns success with the first match as element, and position
\* is present exactly when a bounding box was returned, and is then the center
\* of the box (left + width/2, top + height/2).
C15_ServiceMatch ==
    (Ready /\ locateCap /\ getPageContext(<<>>, 0).ok) =>
        \A d \in Descriptions, answer \in {"norect", "rect"} :
            LET res  == locateElement(d, <<>>, 0, answer).res
                rect == ServiceElements[1].rect
            IN  /\ res.success
                /\ res.data.element = ServiceElements[1]
                /\ res.data.hasPosition <=> answer = "rect"
                /\ answer = "rect" =>
                       /\ res.data.rect = rect
                       /\ res.data.position.x = rect.left + rect.width \div 2
                       /\ res.data.position.y = rect.top + rect.height \div 2

\* the locate capability matched an element and returned no bounding box
C15_Witness ==
    /\ last.op = "locateElement" /\ locateCap /\ last.kind = "result"
    /\ last.res.success /\ ~last.res.data.hasPosition
    /\ last.res.data.element = ServiceElements[1]

\* the page holds exactly one element whose text is the description
OneElementWithText(d) == Cardinality({i \in 1..Len(dom) : dom[i].text = d}) = 1

\* C16: with the reasoning service disabled, a description that matches no
\* keyword category is located through the free-text containment selector: on a
\* page with exactly one element whose text equals the description,
\* locateElement returns success for that element.
C16_ContainmentRoundTrip ==
    (Ready /\ ~locateCap /\ getPageContext(<<>>, 0).ok) =>
        \A d \in Descriptions :
            (FallbackSelector(d) = ContainsSelector(d) /\ OneElementWithText(d)) =>
                LET res == locateElement(d, <<>>, 0, "none").res
                IN  res.success /\ res.data.element.text = d

\* the point lies in the box
Inside(pos, rect) ==
    /\ rect.left <= pos.x /\ pos.x <= rect.left + rect.width
    /\ rect.top <= pos.y /\ pos.y <= rect.top + rect.height

\* C17: the heuristic fallback of locateElement returns a failure naming the
\* description when the chosen selector matches no element, and otherwise
\* returns success for the first match with position the center of its bounding
\* box, a point inside that box.
C17_FallbackResult ==
    (Ready /\ ~locateCap /\ getPageContext(<<>>, 0).ok) =>
        \A d \in Descriptions :
            LET res     == locateElement(d, <<>>, 0, "none").res
                sel     == FallbackSelector(d)
                matches == QuerySelectorAll(dom, sel)
            IN  IF ~IsValidSelector(sel) \/ matches = <<>>
                THEN ~res.success /\ \E k \in 1..Len(res.error) : res.error[k] = d
                ELSE /\ res.success
                     /\ res.data.element = matches[1]
                     /\ res.data.hasPosition
                     /\ 2 * res.data.position.x = 2 * matches[1].rect.left + matches[1].rect.width
                     /\ 2 * res.data.position.y = 2 * matches[1].rect.top + matches[1].rect.height
                     /\ Inside(res.data.position, matches[1].rect)

\* "search button" on the page with one input and one Search button, the
\* reasoning service disabled: the position is the center of the button
C17_Witness ==
    /\ last.op = "locateElement" /\ last.arg = "search button" /\ ~locateCap
    /\ dom = FixturePage /\ last.kind = "result" /\ last.res.success
    /\ last.res.data.element.tag = "button"
    /\ last.res.data.position = [x |-> 260, y |-> 20]

\* C18: on an Initialized agent createPlanForPage always returns a success
\* Action Result carrying a plan, whether the planning capability is present,
\* absent, or present but failing.
C18_PlanningNeverFails ==
    (last.op = "createPlanForPage" /\ last.pre) =>
        (last.kind = "result" /\ last.res.success /\ last.res.hasData)

\* C19: when the planning capability is absent and the page context is built,
\* createPlanForPage returns, whatever the instruction, the fixed plan of exactly
\* one action, of type extract with selector "h1, h2, .content, article", and
\* executePlan on that plan attempts exactly one step, an extraction.
C19_FallbackPlan ==
    (Ready /\ ~planCap /\ getPageContext(<<>>, 0).ok) =>
        \A instruction \in Instructions :
            LET res  == createPlanForPage(instruction, <<>>, 0, <<>>).res
                plan == res.data.plan
                run  == executePlan(plan, 0, "none")
            IN  /\ res.success /\ res.hasData
                /\ Len(plan) = 1
                /\ plan[1].type = "extract"
                /\ plan[1].selector = "h1, h2, .content, article"
                /\ run.res.hasData
                /\ Len(run.res.data.actions) = 1
                /\ run.res.data.actions[1].type = "extract"
                /\ run.calls = <<"evaluate">>

\* createPlanForPage made up its plan, the planning capability being absent
C19_Witness ==
    /\ last.op = "createPlanForPage" /\ last.arg = "list the links" /\ ~planCap
    /\ last.kind = "result" /\ last.res.success
    /\ Len(last.res.data.plan) = 1 /\ last.res.data.plan[1].type = "extract"

\* C20: the result of AIEnhancedAgent.navigateTo is exactly the result of the
\* navigation of the base agent, whatever the outcome of the planning that
\* follows it: success, a failed result, or a fault in the capture of the
\* context or in the reasoning service.
C20_NavigationResultKept ==
    Ready =>
        \A url \in Urls, answer \in PlanChoices :
            \A F \in FaultPoints(AINavigateTo(url, 0, answer).out) :
                LET a == AINavigateTo(url, F, answer).out
                    c == CrawlerNavigateTo(url, F).out
                IN  /\ a.kind = "result" /\ c.kind = "result"
                    /\ a.res.success = c.res.success
                    /\ a.res.error = c.res.error
                    /\ a.res.hasData = c.res.hasData
                    /\ a.res.hasData => a.res.data = c.res.data

\* the navigation succeeded and the screenshot of the planning after it failed
C20_Witness ==
    /\ last.op = "navigateTo" /\ last.pre /\ last.kind = "result" /\ last.res.success
    /\ options.autoPlan
    /\ last.calls = <<"goto", "evaluate", "screenshot">>

----------------------------------------------------------------------------
(* C21 *)

\* a call of extractData that succeeded, awaiting its caller; the document is
\* the one the call read, since extractData changes nothing
Extracted == pc = "returned" /\ last.op = "extractData" /\ last.res.success

\* the trimmed texts of all the elements, in document order
AllTrimmed(els) == [i \in 1..Len(els) |-> Trim(els[i].text)]

----------------------------------------------------------------------------
(* C22 *)

----------------------------------------------------------------------------
(* C24 *)

KnownEngines == {"playwright", "puppeteer"}

\* C24: the factory constructs an adapter only for a known engine name, and
\* then the adapter of that engine; for every other name it throws the
\* unsupported-engine error and there is no adapter: a constructor call that
\* names an unknown engine throws that error and leaves no agent and no
\* adapter, and an agent that exists has the adapter of a known engine.
C24_NoSilentDefault ==
    /\ \A type \in EngineNames :
          createBrowser(type) = IF type \in KnownEngines THEN type ELSE "none"
    /\ options.browser # "none" => options.browser \in KnownEngines
    /\ (pc = "returned" /\ last.op = "constructor" /\ last.arg \notin KnownEngines \cup {""})
          => /\ last.kind = "throw"
             /\ last.res.error = <<"Unsupported browser type">>
             /\ options.browser = "none"
             /\ drvBrowser = "unset" /\ drvInits = 0

\* new AIEnhancedAgent({browser: 'webkit'}) has thrown
C24_Witness ==
    /\ pc = "returned" /\ last.op = "constructor" /\ last.arg = "webkit"
    /\ last.kind = "throw"
    /\ options.browser = "none"

----------------------------------------------------------------------------
(* C27 *)

Range(s) == {s[i] : i \in 1..Len(s)}

\* the call ran into the fault F: its F-th call on the driver was made, and faulted
Faulted(out, F) == F >= 1 /\ Len(out.calls) >= F

\* a failed Action Result whose error begins with the words of the operation
\* and has the target among its parts
Annotated(out, words, target) ==
    /\ out.kind = "result"
    /\ ~out.res.success
    /\ out.res.error[1] = words
    /\ target \in Range(out.res.error)

\* C27: on an initialized agent, a driver fault inside clickElement, typeText
\* with a selector, extractText, navigateTo or pressKey is caught and returned
\* as a failed Action Result whose error names the operation and its target:
\* the selector, the URL, the key.
C27_FaultNamesTarget ==
    (Ready /\ isInitialized) =>
        /\ \A sel \in Selectors, F \in 1..3 :
              LET out == clickElement(sel, <<>>, F)
              IN  Faulted(out, F) =>
                      Annotated(out, "Failed to click element with selector", sel)
        /\ \A sel \in Selectors, F \in 1..2 :
              LET out == typeText("hello", sel, <<>>, F)
              IN  Faulted(out, F) => Annotated(out, "Failed to type text", sel)
        /\ \A sel \in Selectors :
              LET out == extractText(sel, <<>>, 1)
              IN  Faulted(out, 1) => Annotated(out, "Failed to extract text from", sel)
        /\ \A url \in Urls, F \in 1..2 :
              LET out == CrawlerNavigateTo(url, F).out
              IN  Faulted(out, F) => Annotated(out, "Failed to navigate to", url)
        /\ LET out == pressKey("Enter", <<>>, 1)
           IN  Faulted(out, 1) => Annotated(out, "Failed to press key", "Enter")

----------------------------------------------------------------------------
(* C28 *)

\* a call of clickElement, or of typeText with a selector, that succeeded
Targeted ==
    /\ pc = "returned" /\ last.res.success
    /\ \/ last.op = "clickElement"
       \/ last.op = "typeText" /\ last.arg # ""

\* a occurs in s, and b occurs after the first a
Then(s, a, b) ==
    \E i \in 1..Len(s) : \E j \in (i + 1)..Len(s) : s[i] = a /\ s[j] = b

\* the target is confirmed, scrolled into view, measured and clicked, in this order
ResolvedByClick(effects) ==
    /\ Then(effects, "querySelector", "scrollIntoView")
    /\ Then(effects, "scrollIntoView", "getBoundingClientRect")
    /\ Then(effects, "getBoundingClientRect", "clickAt")

\* C28, as stated: clickElement(selector) and typeText(text, selector) both
\* confirm that the element exists, scroll it into view, compute the center of
\* its bounding box and then call clickAt at that center; typeText types only
\* after that clickAt.
C28_Original ==
    Targeted =>
        LET effects == PageEffects(last.op, last.arg, last.calls)
        IN  /\ ResolvedByClick(effects)
            /\ last.op = "typeText" => Then(effects, "clickAt", "type")

\* C28, amended: clickElement confirms that the element exists, scrolls it
\* into view, reads its bounding box and calls clickAt at the center of the box,
\* in this order and each once; typeText with a selector confirms that the
\* element exists, focuses it and then types: it scrolls nothing, measures
\* nothing and calls no clickAt.
C28_TargetResolution ==
    Targeted =>
        LET effects == PageEffects(last.op, last.arg, last.calls)
            rect    == QuerySelectorAll(dom, last.arg)[1].rect
        IN  IF last.op = "clickElement"
            THEN /\ effects = <<"querySelector", "scrollIntoView", "querySelector",
                               "getBoundingClientRect", "clickAt">>
                 /\ 2 * ClickPosition(last.arg).x \in {2 * rect.left + rect.width - 1,
                                                      2 * rect.left + rect.width}
                 /\ 2 * ClickPosition(last.arg).y \in {2 * rect.top + rect.height - 1,
                                                      2 * rect.top + rect.height}
            ELSE effects = <<"querySelector", "focus", "type">>

\* both operations have succeeded on the input of the fixture page
C28_Witness ==
    /\ Targeted /\ last.op = "clickElement" /\ last.arg = "#q"
    /\ dom = FixturePage
    /\ ClickPosition("#q") = [x |-> 110, y |-> 20]
    /\ typeText("hello", "#q", <<>>, 0).res.success

----------------------------------------------------------------------------
(* C29 *)

\* a call of clickElement, or of typeText with a selector, on an initialized
\* agent, whose existence check ran without a fault and found no element
FoundNothing ==
    /\ pc = "returned" /\ last.pre
    /\ \/ last.op = "clickElement"
       \/ last.op = "typeText" /\ last.arg # ""
    /\ Cause \notin Range(last.res.error)
    /\ QuerySelectorAll(dom, last.arg) = <<>>

\* C29: when the existence check of clickElement or of typeText with a selector
\* finds no element, the result is a failure whose error names the selector,
\* the check was made exactly once, and neither clickAt nor type was called on
\* the driver.
C29_NotFoundOnce ==
    FoundNothing =>
        /\ last.kind = "result" /\ ~last.res.success
        /\ last.arg \in Range(last.res.error)
        /\ last.calls = <<"evaluate">>
        /\ Count(last.calls, "clickAt") = 0 /\ Count(last.calls, "type") = 0

\* both operations have looked for #missing on the fixture page
C29_Witness ==
    /\ FoundNothing /\ last.op = "typeText" /\ last.arg = "#missing"
    /\ dom = FixturePage
    /\ last.res.error = <<"Element with selector", "#missing", "not found">>
    /\ clickElement("#missing", <<>>, 0).res.error = last.res.error

----------------------------------------------------------------------------
(* C30 *)

NoPositionError(d) ==
    <<"Located element", d, "but could not determine position for clicking">>

\* C30: clickOnElement calls clickAt only after a successful location that
\* carries a position.  When the location succeeds without a position,
\* clickOnElement returns the failure "Located element ... but could not
\* determine position for clicking", which is not the failure of an element
\* not found, and calls no clickAt; when the location fails, clickOnElement
\* returns that failure and calls no clickAt.  Stated of a performed call and
\* of the location that it made: the answer of the service and the fault that
\* give the outcome of the call.
C30_ClickNeedsPosition ==
    (pc = "returned" /\ last.op = "clickOnElement") =>
        LET d     == last.arg
            Runs  == { r \in LocateChoices \X (0..7) :
                         LET out == clickOnElement(d, <<>>, r[2], r[1])
                         IN  last.res = out.res /\ last.calls = out.calls }
        IN  /\ Runs # {}
            /\ \A r \in Runs :
                  LET loc == locateElement(d, <<>>, r[2], r[1])
                  IN  /\ Count(last.calls, "clickAt") <= 1
                      /\ Count(last.calls, "clickAt") = 1 =>
                            /\ loc.res.success /\ loc.res.data.hasPosition
                            /\ last.calls = Append(loc.calls, "clickAt")
                      /\ ~loc.res.success =>
                            last.res = loc.res /\ last.calls = loc.calls
                      /\ (loc.res.success /\ ~loc.res.data.hasPosition) =>
                            /\ ~last.res.success
                            /\ last.res.error = NoPositionError(d)
                            /\ last.res.error # <<"Could not find element:", d>>
                            /\ last.calls = loc.calls

\* a call that located the element without a position and did not click
C30_Witness ==
    /\ pc = "returned" /\ last.op = "clickOnElement"
    /\ last.res.error = NoPositionError(last.arg)
    /\ Count(last.calls, "clickAt") = 0
    /\ Count(last.calls, "AiLocateElement") = 1

----------------------------------------------------------------------------
(* C25 *)

\* C25: any two screenshot files written to the same output directory, by one
\* agent (also across its initialize() calls) or by different agents that share
\* the directory, have distinct names screenshot-<epoch_ms>-<counter>.jpg.
C25_DistinctNames ==
    \A i, j \in 1..Len(written) : i # j => written[i].name # written[j].name

\* the same of the files of one agent alone
DistinctPerAgent ==
    \A i, j \in 1..Len(written) :
        (i # j /\ written[i].by = written[j].by) => written[i].name # written[j].name

\* the counter of an agent never decreases
CounterMonotone == [][screenshotCounter' >= screenshotCounter]_vars

----------------------------------------------------------------------------
(* C26 *)

\* the call inv has returned before the p-th event
ReturnedBefore(inv, p) ==
    \E q \in 1..(p - 1) : trace[q].inv = inv /\ trace[q].ev = "return"

\* C26: the calls made on one agent execute strictly in the order of their
\* invocation: when a call is made before an earlier call has returned, none
\* of its driver calls starts before every driver call of the earlier call has
\* ended, that is before the earlier call has returned.
C26_InvocationOrder ==
    \A p \in 1..Len(trace) :
        trace[p].ev = "start" =>
            \A inv \in 1..(trace[p].inv - 1) : ReturnedBefore(inv, p)

----------------------------------------------------------------------------
(* C23 *)

\* the timeout of the call read literally: the argument whenever one is
\* given, else the configured timeout of the agent
ClaimedTimeout == IF wait.arg.given THEN wait.arg.ticks ELSE wait.configured

\* the timeout of the call: the argument when it is a number other than 0, else
\* the configured timeout of the agent
EffectiveTimeout ==
    IF wait.arg.given /\ wait.arg.ticks # 0 THEN wait.arg.ticks ELSE wait.configured

\* C23, as stated: waitForNavigation(timeout) on an initialized agent returns
\* { success: true }, when the ready state is complete or when the timeout (the
\* argument, else the configured timeout) has elapsed, whichever is first, and
\* not before: it never waits longer than that timeout, and what it returns is
\* success.
C23_Original ==
    /\ wait.pc = "waiting" => wait.elapsed <= ClaimedTimeout
    /\ wait.pc = "returned" =>
          /\ wait.res = "success"
          /\ readyState = "complete" \/ wait.elapsed >= ClaimedTimeout

\* C23, amended: waitForNavigation(timeout) on an initialized agent is a
\* bounded wait that always eventually returns.  Its timeout is the argument
\* when that is a number other than 0, else the configured timeout of the
\* agent.  It never waits longer than the timeout; when it returns
\* { success: true } the ready state is complete or the timeout has elapsed in
\* full.  It returns { success: true } unless the evaluate call it makes is
\* rejected by the engine, which it returns as a failure.
C23_BoundedWait ==
    /\ [](wait.pc = "waiting" =>
            wait.timer = EffectiveTimeout /\ wait.elapsed <= EffectiveTimeout)
    /\ []((wait.pc = "returned" /\ wait.res = "success") =>
            \/ wait.resolved = "complete" /\ readyState = "complete"
            \/ wait.resolved = "timeout" /\ wait.elapsed = EffectiveTimeout)
    /\ []((wait.pc = "returned" /\ wait.res # "success") => wait.res = "failure")
    /\ (wait.pc = "waiting") ~> (wait.pc = "returned")

\* waitForNavigation(1) has returned success on a page that did not complete,
\* one tick after the call
C23_Witness ==
    /\ wait.pc = "returned" /\ wait.res = "success"
    /\ wait.arg = Timeout(1) /\ wait.configured = DefaultTimeout
    /\ wait.resolved = "timeout" /\ wait.elapsed = 1
    /\ readyState # "complete"

----------------------------------------------------------------------------
(* C31 *)

\* the keywords a description holds, in whatever case, written out by hand
Mentions(d) ==
    CASE d = "search button" -> {"button"}
      [] d = "Text Field"    -> {"text", "field"}
      [] d = "home link"     -> {"link"}
      [] d = "Link Button"   -> {"link", "button"}
      [] d = "BUTTON text"   -> {"button", "text"}
      [] d = "link in field" -> {"link", "field"}
      [] d = "TEXT link"     -> {"text", "link"}
      [] d = "Input"         -> {"input"}
      [] d = "next LINK"     -> {"link"}
      [] OTHER               -> {}

\* the selector by the order button, input|text|field, link, free text
ByFixedOrder(d) ==
    IF "button" \in Mentions(d) THEN ButtonSelector
    ELSE IF Mentions(d) \cap {"input", "text", "field"} # {} THEN InputSelector
    ELSE IF "link" \in Mentions(d) THEN LinkSelector
    ELSE ContainsSelector(d)

\* C31: the classification of locateElement without AiLocateElement ignores
\* case and takes the first match in the order button, input|text|field, link,
\* free text: a description with "button" in it is looked up by the button
\* selector whatever else it holds, one with "input", "text" or "field" and no
\* "button" by the input selector; the element returned is the first match of
\* that selector, and there is none when that selector matches nothing
C31_FirstMatchInFixedOrder ==
    (pc = "returned" /\ last.op = "locateElement") =>
        LET d     == last.arg
            found == QuerySelectorAll(dom, ByFixedOrder(d))
        IN  /\ FallbackSelector(d) = ByFixedOrder(d)
            /\ last.res.success =>
                  /\ IsValidSelector(ByFixedOrder(d))
                  /\ found # <<>>
                  /\ last.res.data.element = [found[1] EXCEPT !.text = Trim(@)]
            /\ (IsValidSelector(ByFixedOrder(d)) /\ found = <<>>) => ~last.res.success

\* a description with "button" and "link" in it, in capitals, found the button
\* and not the link that comes before it in the document
C31_Witness ==
    /\ pc = "returned" /\ last.op = "locateElement"
    /\ last.arg = "Link Button"
    /\ dom = LinksPage
    /\ last.res.success
    /\ last.res.data.element.tag = "button"
    /\ dom[2].tag = "a"

----------------------------------------------------------------------------
(* C32 *)

\* the calls of a log that come after its screenshot or stand in its place
BeyondScreenshot(calls) ==
    Count(calls, "getPageDimensions") + Count(calls, "evaluate")
    + Count(calls, "AiLocateElement") + Count(calls, "plan")

\* the outcome is the failure of a context that had no screenshot
AbortedAtScreenshot(shot, words) ==
    /\ ~last.res.success
    /\ last.res.error = words \o <<"Failed to take screenshot">> \o shot.res.error
    /\ last.calls = shot.calls
    /\ BeyondScreenshot(last.calls) = 0

\* C32: when the screenshot of the page context fails, locateElement and
\* createPlanForPage return a failed Action Result that carries the failure
\* of the screenshot, and make no call after it: no query of the dimensions,
\* title, URL or document, no call of the reasoning service and no selector
\* query.  Stated of a performed call and of every fault that gives its
\* outcome.
C32_ScreenshotFaultAborts ==
    /\ (pc = "returned" /\ last.op = "locateElement") =>
          LET d    == last.arg
              Runs == { r \in LocateChoices \X (0..6) :
                          LET out == locateElement(d, <<>>, r[2], r[1])
                          IN  last.res = out.res /\ last.calls = out.calls }
          IN  /\ Runs # {}
              /\ \A r \in Runs :
                    LET shot == takeScreenshot(<<>>, r[2])
                    IN  ~shot.res.success =>
                           AbortedAtScreenshot(shot, <<"Failed to locate element", d>>)
    /\ (pc = "returned" /\ last.op = "createPlanForPage") =>
          LET Runs == { r \in PlanChoices \X (0..6) :
                          LET out == createPlanForPage(last.arg, <<>>, r[2], r[1])
                          IN  last.res = out.res /\ last.calls = out.calls }
          IN  /\ Runs # {}
              /\ \A r \in Runs :
                    LET shot == takeScreenshot(<<>>, r[2])
                    IN  ~shot.res.success =>
                           AbortedAtScreenshot(shot, <<"Failed to create plan">>)

\* the engine failed the screenshot of an initialized agent whose reasoning
\* service can plan, and createPlanForPage failed with the one call made
C32_Witness ==
    /\ pc = "returned" /\ last.op = "createPlanForPage"
    /\ isInitialized /\ planCap
    /\ last.calls = <<"screenshot">>
    /\ ~last.res.success

----------------------------------------------------------------------------
(* C33 *)

\* the calls createPlanForPage makes, counted in a log of navigateTo: the
\* screenshot, the dimensions, the reasoning service, and the page queries
\* beyond the one by which the navigation reads the URL
PlanningCalls(calls) ==
    Count(calls, "screenshot") + Count(calls, "getPageDimensions")
    + Count(calls, "plan") + Count(calls, "AiLocateElement")
    + (IF Count(calls, "evaluate") > 1 THEN Count(calls, "evaluate") - 1 ELSE 0)

\* C33: navigateTo of the AI-enhanced agent goes on to createPlanForPage only
\* when useAutonomousPlanning is on and the navigation of the base agent
\* succeeded.  With the toggle off, or after a failed navigation, the call
\* makes the calls of the base navigation and nothing after them: no
\* screenshot, no context query, no call of the reasoning service.
C33_PlanningOnlyAfterNavigation ==
    (pc = "returned" /\ last.op = "navigateTo") =>
        /\ (~options.autoPlan \/ ~last.res.success) =>
              /\ PlanningCalls(last.calls) = 0
              /\ \E F \in 0..2 : last.calls = CrawlerNavigateTo(last.arg, F).out.calls
        /\ (options.autoPlan /\ last.res.success) =>
              /\ Len(last.calls) > 2
              /\ SubSeq(last.calls, 1, 3) = <<"goto", "evaluate", "screenshot">>

\* a navigation that succeeded with the toggle off: the page changed and
\* nothing followed the two calls of the navigation
C33_Witness ==
    /\ pc = "returned" /\ last.op = "navigateTo"
    /\ ~options.autoPlan /\ last.res.success
    /\ last.calls = <<"goto", "evaluate">>
    /\ dom = PageAt(last.arg)

----------------------------------------------------------------------------
(* C34 *)

\* the node T of a captured tree stands for element i of the document, lies
\* at most 3 levels below the root, holds as text no more than the first 100
\* characters of the trimmed text content of its element, and so do the
\* nodes below it
RECURSIVE Shallow(_, _, _)
Shallow(T, i, depth) ==
    /\ depth <= 3
    /\ T.tag = dom[i].tag
    /\ Len(T.text) <= 100
    /\ T.text = SubSeq(TrimChars(TextContent(i)), 1, Len(T.text))
    /\ Len(T.children) <= Len(Children(i))
    /\ \A k \in 1..Len(T.children) :
          Shallow(T.children[k], Children(i)[k], depth + 1)

\* the number of levels below the root of a tree
RECURSIVE Height(_)
Height(T) ==
    IF T.children = <<>> THEN 0
    ELSE 1 + Height(T.children[
                 CHOOSE k \in 1..Len(T.children) :
                     \A m \in 1..Len(T.children) :
                         Height(T.children[m]) <= Height(T.children[k])])

\* C34: the tree of a page context is bounded by depth 3 whatever the page:
\* it has no node more than 3 levels below its root, and the text of every
\* node is at most the first 100 characters of the trimmed text content of
\* the element it stands for.
C34_ShallowTree ==
    (pc = "returned" /\ last.op = "getPageContext" /\ last.res.success) =>
        /\ Shallow(last.res.data.tree, 1, 0)
        /\ Height(last.res.data.tree) <= 3

\* the context of a document that is deeper than 3 levels and whose text is
\* longer than 100 characters: the tree stops at level 3 and the text of its
\* root at 100 characters
C34_Witness ==
    /\ pc = "returned" /\ last.op = "getPageContext" /\ last.res.success
    /\ \E i \in 1..Len(dom) : dom[i].depth > 3
    /\ Height(last.res.data.tree) = 3
    /\ Len(TrimChars(TextContent(1))) > 100
    /\ Len(last.res.data.tree.text) = 100

----------------------------------------------------------------------------
(* C35 *)

\* before the p-th event, the call inv saw its driver call settle in one of
\* the given ways
SettledBefore(inv, call, ways, p) ==
    \E q \in 1..(p - 1) :
        trace[q].inv = inv /\ trace[q].call = call /\ trace[q].ev \in ways

\* C35: clickAt of the adapter clicks first and then waits for the page to
\* settle: the wait starts only after the click has succeeded; a failure or a
\* timeout of the wait is swallowed, so that a call whose click succeeded ends
\* by returning and never by throwing; and it ends only after the wait has
\* ended, by the network falling idle, by the timeout or by a failure.
C35_ClickThenSettle ==
    \A p \in 1..Len(trace) :
        LET e == trace[p] IN
        /\ (e.call = "waitForLoadState" /\ e.ev = "start") =>
               /\ SettledBefore(e.inv, "mouse.click", {"end"}, p)
               /\ ~SettledBefore(e.inv, "", {"return", "throw"}, p)
        /\ (e.call = "" /\ SettledBefore(e.inv, "mouse.click", {"end"}, p)) =>
               /\ e.ev = "return"
               /\ flight[e.inv].res = "void"
               /\ SettledBefore(e.inv, "waitForLoadState", LoadStateOutcomes, p)

\* the wait of a call timed out, and the call returned normally after that
C35_Witness ==
    \E p \in 2..Len(trace) :
        /\ trace[p] = Event(1, "", "return")
        /\ trace[p - 1] = Event(1, "waitForLoadState", "timeout")
        /\ flight[1].res = "void"

----------------------------------------------------------------------------
(* C36 *)

\* the operations the AI-enhanced agent adds to those of the base agent
AIOps == { "locateElement", "clickOnElement", "inputTextIntoElement",
           "createPlanForPage", "executePlan" }

\* C36: locateElement, clickOnElement, inputTextIntoElement, createPlanForPage
\* and every step of executePlan, called while the agent is not Initialized,
\* return a failed Action Result, and make no call on the driver adapter and
\* none on the reasoning service: the call log is empty.  Of executePlan, every
\* step it reports has failed, and it fails itself if the plan has a step.
C36_AIOpsNeedInitialized ==
    (pc = "returned" /\ last.op \in AIOps /\ ~last.pre) =>
        /\ last.kind = "result"
        /\ last.calls = <<>>
        /\ last.op # "executePlan" => (~last.res.success /\ ~last.res.hasData)
        /\ last.op = "executePlan" =>
              /\ last.arg # <<>> => ~last.res.success
              /\ last.res.hasData =>
                    /\ last.arg # <<>> => last.res.data.actions # <<>>
                    /\ \A i \in 1..Len(last.res.data.actions) :
                          ~last.res.data.actions[i].success

\* a plan run on an agent that was closed, with the reasoning service at
\* hand: its first step was reported as failed and nothing was called
C36_Witness ==
    /\ pc = "returned" /\ last.op = "executePlan"
    /\ ~last.pre /\ last.preBrowser = "closed" /\ locateCap
    /\ last.res.hasData
    /\ Len(last.res.data.actions) = 1
    /\ last.res.data.actions[1].type = "click"
    /\ ~last.res.data.actions[1].success
    /\ last.calls = <<>>

----------------------------------------------------------------------------
(* C37 *)

\* the calls other than initialize() and close(), and the constructor
LifecycleOps == { "constructor", "initialize", "close" }

\* the calls an operation makes once at most
CalledOnce ==
    { "goto", "clickAt", "type", "press", "scroll", "screenshot",
      "getPageDimensions", "AiLocateElement", "plan" }

\* the page scripts an operation hands to evaluate, each of them once
Scripts(op) ==
    CASE op \in {"pressKey", "scroll", "takeScreenshot"} -> 0
      [] op = "clickElement" -> 2
      [] op \in { "navigateTo", "locateElement", "clickOnElement",
                  "inputTextIntoElement", "executePlan" } -> 4
      [] op = "createPlanForPage" -> 3
      [] OTHER -> 1

\* a call other than initialize() and close() settles in this step
Acts == pc = "idle" /\ pc' = "returned" /\ last'.op \notin LifecycleOps

\* C37: only initialize() and close() change the lifecycle state.  A call of
\* any other operation leaves isInitialized and the session of the adapter as
\* they were, neither initializing nor closing the adapter, whether it
\* succeeds, finds no target or meets a fault of the driver.  Made on an
\* Initialized agent, it leaves the agent Initialized, so that the next action
\* is not refused; it is not refused itself; and it makes each of its driver
\* calls once, with no repetition after a failure (per step, for a plan).
C37_ActionsKeepLifecycle ==
    [][ Acts =>
          LET op    == last'.op
              steps == IF op = "executePlan" THEN Len(last'.arg) ELSE 1
          IN  /\ isInitialized' = isInitialized
              /\ drvBrowser' = drvBrowser /\ drvPage' = drvPage
              /\ drvInits' = drvInits /\ drvCloses' = drvCloses
              /\ Count(last'.calls, "initialize") = 0
              /\ Count(last'.calls, "close") = 0
              /\ isInitialized =>
                    /\ isInitialized'
                    /\ last'.res.error # <<"Browser not initialized">>
                    /\ op \in ActionOps => last'.calls # <<>>
                    /\ \A m \in CalledOnce : Count(last'.calls, m) <= steps
                    /\ Count(last'.calls, "evaluate") <= steps * Scripts(op)
    ]_vars

\* a key press on an Initialized agent failed by a fault of the driver after
\* its one call, and the agent is Initialized as before
C37_Witness ==
    /\ pc = "returned" /\ last.op = "pressKey"
    /\ last.pre /\ isInitialized
    /\ ~last.res.success
    /\ last.res.error = <<"Failed to press key", "Enter", Cause>>
    /\ last.calls = <<"press">>

----------------------------------------------------------------------------
(* C38 *)

\* every type of the log comes straight after a clickAt, and that clickAt
\* straight after the call that located the element
TypeFollowsClick(calls) ==
    \A p \in 1..Len(calls) :
        calls[p] = "type" =>
            /\ p > 2
            /\ calls[p - 1] = "clickAt"
            /\ calls[p - 2] \in {"AiLocateElement", "evaluate"}

\* C38: inputTextIntoElement, called directly or as the input step of a plan,
\* calls type of the driver only after a location that succeeded with a
\* position and a clickAt, at that position, that completed.  When the
\* location fails, its failure is returned; when it has no position, or
\* clickAt faults, a failed Action Result is returned; in all three cases
\* type is not called.  Stated of a performed call and of the location that
\* it made: the answer of the service and the fault that give its outcome.
C38_TypeAfterClick ==
    /\ (pc = "returned" /\ last.op \in {"inputTextIntoElement", "executePlan"}) =>
          TypeFollowsClick(last.calls)
    /\ (pc = "returned" /\ last.op = "inputTextIntoElement") =>
          LET d    == last.arg
              Runs == { r \in LocateChoices \X (0..8) :
                          LET out == inputTextIntoElement(d, "hello", <<>>, r[2], r[1])
                          IN  last.res = out.res /\ last.calls = out.calls }
          IN  /\ Runs # {}
              /\ \A r \in Runs :
                    LET loc  == locateElement(d, <<>>, r[2], r[1])
                        logC == Append(loc.calls, "clickAt")
                    IN  /\ Count(last.calls, "type") <= 1
                        /\ Count(last.calls, "type") = 1 =>
                              /\ loc.res.success /\ loc.res.data.hasPosition
                              /\ InputPosition(loc) = Center(loc.res.data.rect)
                              /\ Inside(InputPosition(loc), loc.res.data.element.rect)
                              /\ ~PageFails(loc.calls, r[2])
                              /\ last.calls = Append(logC, "type")
                        /\ ~loc.res.success =>
                              last.res = loc.res /\ last.calls = loc.calls
                        /\ (loc.res.success /\ ~loc.res.data.hasPosition) =>
                              /\ ~last.res.success
                              /\ last.calls = loc.calls
                        /\ ( /\ loc.res.success /\ loc.res.data.hasPosition
                             /\ PageFails(loc.calls, r[2]) ) =>
                              /\ ~last.res.success /\ ~last.res.hasData
                              /\ last.calls = logC

\* the element was located with a position and clickAt threw: the call
\* failed with clickAt as its last call, and nothing was typed
C38_Witness ==
    /\ pc = "returned" /\ last.op = "inputTextIntoElement"
    /\ last.pre
    /\ last.res.error = <<"Failed to input text into element", last.arg, Cause>>
    /\ last.calls # <<>> /\ last.calls[Len(last.calls)] = "clickAt"
    /\ Count(last.calls, "type") = 0

====
